---- MODULE Spec2Model ----
(***************************************************************************)
(* Control loop of the polymarket up/down bot: the packaged loop           *)
(* (src/src/polymarket_bot/main.py, run_bot_loop) and the standalone loop  *)
(* (src/main.py, main), with the strategy functions, Position and BotState *)
(* they use.  One tick of the loop is cut at its blocking network calls:   *)
(* discovery, the wall-clock sample, the two signal reads, and one step    *)
(* per intent (guard estimate + order + fill + save).                      *)
(*                                                                         *)
(* Optional values are sequences: None is <<>>, a present v is <<v>>.      *)
(* Prices are whole cents, dollars whole USD, time whole seconds; the      *)
(* average entry price is kept as an exact fraction num/den.               *)
(***************************************************************************)
EXTENDS Integers, Sequences, FiniteSets, TLC

VARIABLES
    variant,              \* which loop runs: "run_bot_loop" (package) or "main" (standalone)
    chunk_stake,          \* --chunk_stake
    max_stake_per_event,  \* --max_stake_per_event
    clock,                \* the wall clock, utc_now()
    pc,                   \* position of the loop inside the tick
    state,                \* the in-memory BotState
    disk,                 \* the state file: None, or the last state saved
    now,                  \* the tick's sample of the clock (ts = now.isoformat())
    up_px, down_px,       \* the tick's signal prices
    tick0,                \* history: identity and phase of the BotState the tick started from, and when
    calls,                \* history: guard estimates and orders of this tick, in order
    submits,              \* history: times of the session's latest answered orders
    tmp,                  \* the file state_file + ".tmp": None, or its content
    writable,             \* whether the storage medium accepts writes
    interrupted,          \* whether the process was sent SIGINT (Ctrl+C)
    arg,                  \* the arguments of the function being called, None outside a call
    ret                   \* what that call returned, None before it returns

vars == << variant, chunk_stake, max_stake_per_event, clock, pc, state, disk,
           now, up_px, down_px, tick0, calls, submits, tmp, writable,
           interrupted, arg, ret >>

(***************************************************************************)
(* Bounds and configuration                                                *)
(***************************************************************************)
MaxTime == 5                        \* the clock stops advancing here
Chunks == 2                         \* write() calls json.dump needs for one state

trigger_below_cents == 25           \* --trigger_below_cents
dca_step_cents == 2                 \* --dca_step_cents
hedge_sum_under_cents == 98         \* --hedge_sum_under_cents
max_entry_vwap_cents == 30          \* --max_entry_vwap_cents
max_hedge_vwap_cents == 90          \* --max_hedge_vwap_cents
min_seconds_between_orders == 2     \* --min_seconds_between_orders (configurable; default 5.0)

Variants == {"run_bot_loop", "main"}
\* the (--chunk_stake, --max_stake_per_event) settings explored: one where the
\* first fill reaches the cap exactly, one where the cap is no multiple of the chunk
Settings == { [chunk_stake |-> 1, max_stake_per_event |-> 1],
              [chunk_stake |-> 2, max_stake_per_event |-> 3] }

SignalPx == {22, 24, 70}            \* results of vwap_cents_for_shares (cents)
\* a setting whose cap leaves room for the entry and two further adds, and
\* the lower price the second of them needs
DeepSettings == { [chunk_stake |-> 1, max_stake_per_event |-> 3] }
DeepPx == {20}
\* the settings of the end-to-end scenario (an entry and one add fit under the
\* cap, exactly or with room to spare) and the signal prices it goes through
ScenarioSettings == { [chunk_stake |-> 2, max_stake_per_event |-> 4],
                      [chunk_stake |-> 2, max_stake_per_event |-> 5] }
ScenarioPx == {21, 23, 25, 70}
GuardPx == {20, 60, 95}             \* results of vwap_cents_for_usd (cents)
FillPx == {20, 50}                  \* average fill prices (cents) the exchange returns

None == << >>
Some(v) == << v >>

\* The rotating markets the discovery service knows (gamma descriptors).
Markets ==
    { [slug |-> "m1", conditionId |-> "c1", startDate |-> 0, endDate |-> 5,
       up |-> "u1", down |-> "d1"],
      [slug |-> "m2", conditionId |-> "c2", startDate |-> 5, endDate |-> 9,
       up |-> "u2", down |-> "d2"] }

\* The same markets as the service lists them, "outcomes" and "clobTokenIds"
\* being two parallel arrays, and the malformed records it may also list.
GammaMarket(m, outcomes, clobTokenIds) ==
    [slug |-> m.slug, conditionId |-> m.conditionId, startDate |-> m.startDate,
     endDate |-> m.endDate, outcomes |-> outcomes, clobTokenIds |-> clobTokenIds]

Listings ==
    UNION { { GammaMarket(m, << "up", "down" >>, << m.up, m.down >>),
              GammaMarket(m, << "down", "up" >>, << m.down, m.up >>),
              GammaMarket(m, << "up", "down" >>, << m.up >>),
              GammaMarket(m, << "yes", "down" >>, << m.up, m.down >>),
              GammaMarket(m, << "up", "no" >>, << m.up, m.down >>) } : m \in Markets }

\* extract_up_down_tokens_from_gamma_market: Raise, or the tuple
\* (condition_id, end_date_iso, up, down) read through the outcome -> token mapping
extract_up_down_tokens_from_gamma_market(g) ==
    IF Len(g.outcomes) # Len(g.clobTokenIds) THEN [t |-> "raise"]
    ELSE LET at(name) == { i \in 1..Len(g.outcomes) : g.outcomes[i] = name }
         IN IF at("up") = {} \/ at("down") = {} THEN [t |-> "raise"]
            ELSE [t |-> "tuple", condition_id |-> g.conditionId,
                  end_date_iso |-> g.endDate,
                  up |-> g.clobTokenIds[CHOOSE i \in at("up") : TRUE],
                  down |-> g.clobTokenIds[CHOOSE i \in at("down") : TRUE]]

(***************************************************************************)
(* Position and BotState (state.py; the same classes in src/main.py)       *)
(***************************************************************************)
Position(side, token_id) ==
    [side |-> side, token_id |-> token_id, total_stake_usd |-> 0, total_shares |-> 0,
     last_add_price_cents |-> None, first_entry_ts |-> None, last_add_ts |-> None]

\* Position.avg_entry_cents: None without shares, else stake / shares * 100 as a fraction
avg_entry_cents(p) ==
    IF p.total_shares <= 0 THEN None
    ELSE Some([num |-> p.total_stake_usd * 100, den |-> p.total_shares])

record_fill_FirstPriceOnly(p, cost_usd, shares, signal_price_cents, ts) ==
    [p EXCEPT !.total_stake_usd = @ + cost_usd,
              !.total_shares = @ + shares,
              !.last_add_price_cents = IF @ = None THEN Some(signal_price_cents) ELSE @,
              !.last_add_ts = Some(ts),
              !.first_entry_ts = IF @ = None THEN Some(ts) ELSE @]

record_fill(p, cost_usd, shares, signal_price_cents, ts) ==
    [p EXCEPT !.total_stake_usd = @ + cost_usd,
              !.total_shares = @ + shares,
              !.last_add_price_cents = Some(signal_price_cents),
              !.last_add_ts = Some(ts),
              !.first_entry_ts = IF @ = None THEN Some(ts) ELSE @]

BotState ==
    [current_slug |-> None, current_condition_id |-> None, end_date_iso |-> None,
     up_token_id |-> None, down_token_id |-> None, main |-> None, hedge |-> None,
     hedged_ts |-> None, sum_avg_at_hedge |-> None, last_order_ts |-> None]

NewSession_Carry(m) ==
    [BotState EXCEPT !.current_slug = Some(m.slug),
                     !.current_condition_id = Some(m.conditionId),
                     !.end_date_iso = Some(m.endDate),
                     !.up_token_id = Some(m.up),
                     !.down_token_id = Some(m.down),
                     !.last_order_ts = state.last_order_ts]

\* BotState(current_slug=..., ...) built on rotation from the discovered market
NewSession(m) ==
    [BotState EXCEPT !.current_slug = Some(m.slug),
                     !.current_condition_id = Some(m.conditionId),
                     !.end_date_iso = Some(m.endDate),
                     !.up_token_id = Some(m.up),
                     !.down_token_id = Some(m.down)]

(***************************************************************************)
(* The dict form of the state and the state file.  A Python/JSON value is  *)
(* a tagged record: null, num (n), str (s), numstr (a string float()       *)
(* accepts, n), list, dict (d maps keys to values).  ISO timestamps are    *)
(* strings whose payload is the second they name.  The text json.dump writes is stood    *)
(* for by the value json.load reads back from it; a text that does not     *)
(* parse is "torn", a file that cannot be opened "unreadable".             *)
(***************************************************************************)
PyNone == [t |-> "null"]
PyNum(n) == [t |-> "num", n |-> n]
PyStr(s) == [t |-> "str", s |-> s]
PyDict(f) == [t |-> "dict", d |-> f]
PyList == [t |-> "list"]

\* an Optional[float] field as asdict leaves it
NumField(o) == IF o = None THEN PyNone ELSE PyNum(o[1])

\* an Optional[str] field as asdict leaves it
StrField(o) == IF o = None THEN PyNone ELSE PyStr(o[1])

\* asdict on a nested Position
position_asdict(p) ==
    PyDict([side |-> PyStr(p.side),
            token_id |-> PyStr(p.token_id),
            total_stake_usd |-> PyNum(p.total_stake_usd),
            total_shares |-> PyNum(p.total_shares),
            last_add_price_cents |-> NumField(p.last_add_price_cents),
            first_entry_ts |-> StrField(p.first_entry_ts),
            last_add_ts |-> StrField(p.last_add_ts)])

\* BotState.to_json: dataclasses.asdict, a field-for-field copy into a dict
to_json(st) ==
    PyDict([current_slug |-> StrField(st.current_slug),
            current_condition_id |-> StrField(st.current_condition_id),
            end_date_iso |-> StrField(st.end_date_iso),
            up_token_id |-> StrField(st.up_token_id),
            down_token_id |-> StrField(st.down_token_id),
            main |-> IF st.main = None THEN PyNone ELSE position_asdict(st.main[1]),
            hedge |-> IF st.hedge = None THEN PyNone ELSE position_asdict(st.hedge[1]),
            hedged_ts |-> StrField(st.hedged_ts),
            sum_avg_at_hedge |-> NumField(st.sum_avg_at_hedge),
            last_order_ts |-> StrField(st.last_order_ts)])

\* an exception leaving the function
Raise == [t |-> "raise"]

\* d.get(k) and d.get(k, default) on a dict
get(d, k) == IF k \in DOMAIN d.d THEN d.d[k] ELSE PyNone
get_or(d, k, default) == IF k \in DOMAIN d.d THEN d.d[k] ELSE default

\* a value assigned to an Optional field as it is
Plain(x) ==
    IF x.t = "null" THEN None
    ELSE IF x.t = "str" THEN Some(x.s)
    ELSE IF x.t \in {"num", "numstr"} THEN Some(x.n)
    ELSE Some(x)

safe_float_Zero(x) == IF x.t \in {"num", "numstr"} THEN Some(x.n) ELSE Some(0)

\* _safe_float: None for None and for whatever float() refuses
safe_float(x) == IF x.t \in {"num", "numstr"} THEN Some(x.n) ELSE None

\* float(x) raises on None, on a non-numeric string, on a list or dict
FloatRaises(x) == x.t \notin {"num", "numstr"}

\* str(x): a string as it is, None as the text "None", anything else as its repr
str(x) ==
    IF x.t = "str" THEN x.s
    ELSE IF x.t = "null" THEN "None"
    ELSE IF x.t \in {"num", "numstr"} THEN ToString(x.n)
    ELSE "repr"

\* does pos_from(p) raise: a dict whose stake or shares float() refuses
pos_raises(p) ==
    /\ p.t = "dict"
    /\ \/ FloatRaises(get_or(p, "total_stake_usd", PyNum(0)))
       \/ FloatRaises(get_or(p, "total_shares", PyNum(0)))

\* pos_from inside BotState.from_json (called when it does not raise)
pos_from(p) ==
    IF p.t # "dict" THEN None
    ELSE Some([side |-> str(get(p, "side")),
               token_id |-> str(get(p, "token_id")),
               total_stake_usd |-> get_or(p, "total_stake_usd", PyNum(0)).n,
               total_shares |-> get_or(p, "total_shares", PyNum(0)).n,
               last_add_price_cents |-> safe_float(get(p, "last_add_price_cents")),
               first_entry_ts |-> Plain(get(p, "first_entry_ts")),
               last_add_ts |-> Plain(get(p, "last_add_ts"))])

\* BotState.from_json: Raise, or the BotState built from the dict
from_json(d) ==
    IF d.t # "dict" THEN Raise                        \* d.get: AttributeError
    ELSE IF pos_raises(get(d, "main")) \/ pos_raises(get(d, "hedge")) THEN Raise
    ELSE [current_slug |-> Plain(get(d, "current_slug")),
          current_condition_id |-> Plain(get(d, "current_condition_id")),
          end_date_iso |-> Plain(get(d, "end_date_iso")),
          up_token_id |-> Plain(get(d, "up_token_id")),
          down_token_id |-> Plain(get(d, "down_token_id")),
          main |-> pos_from(get(d, "main")),
          hedge |-> pos_from(get(d, "hedge")),
          hedged_ts |-> Plain(get(d, "hedged_ts")),
          sum_avg_at_hedge |-> safe_float(get(d, "sum_avg_at_hedge")),
          last_order_ts |-> Plain(get(d, "last_order_ts"))]

\* open(path) + json.load: Raise for a file that cannot be opened or parsed
json_load(content) ==
    IF content.t \in {"unreadable", "torn"} THEN Raise ELSE content

\* load_state: the default BotState for a missing file and for any exception
load_state(file) ==
    IF file = None THEN BotState
    ELSE LET d == json_load(file[1]) IN
         IF d.t = "raise" THEN BotState
         ELSE LET st == from_json(d) IN
              IF DOMAIN st = {"t"} THEN BotState ELSE st

save_state_Stale(st) == disk

\* save_state, when it returns: to_json(state) was dumped to path.tmp and
\* os.replace put it at path
save_state(st) == Some(to_json(st))

(***************************************************************************)
(* Strategy (strategy.py; inlined in the standalone loop)                  *)
(***************************************************************************)
choose_entry_side_UpOnlyIfCheaper(up, down, trigger) ==
    IF up < trigger /\ down < trigger
    THEN (IF up < down THEN Some("up") ELSE Some("down"))
    ELSE IF up < trigger THEN Some("up")
    ELSE IF down < trigger THEN Some("down")
    ELSE None

choose_entry_side(up, down, trigger) ==
    IF up < trigger /\ down < trigger
    THEN (IF up <= down THEN Some("up") ELSE Some("down"))
    ELSE IF up < trigger THEN Some("up")
    ELSE IF down < trigger THEN Some("down")
    ELSE None

\* the entry branch of the standalone loop: chosen_side after its if/elif chain
chosen_side(up_px_, down_px_, trigger) ==
    LET both_below == up_px_ < trigger /\ down_px_ < trigger IN
    IF both_below
    THEN (IF up_px_ <= down_px_ THEN Some("up") ELSE Some("down"))
    ELSE IF up_px_ < trigger THEN Some("up")
    ELSE IF down_px_ < trigger THEN Some("down")
    ELSE None

should_dca_Strict(main, main_signal_px, step_cents) ==
    IF main.last_add_price_cents = None THEN FALSE
    ELSE main_signal_px < main.last_add_price_cents[1] - step_cents

should_dca(main, main_signal_px, step_cents) ==
    IF main.last_add_price_cents = None THEN FALSE
    ELSE main_signal_px <= main.last_add_price_cents[1] - step_cents

should_hedge_AtThreshold(main, opp_signal_px, threshold) ==
    LET main_avg == avg_entry_cents(main) IN
    IF main_avg = None THEN << FALSE, None >>
    ELSE LET sum == [num |-> main_avg[1].num + opp_signal_px * main_avg[1].den,
                     den |-> main_avg[1].den]
         IN << sum.num <= threshold * sum.den, Some(sum) >>

\* returns << hedge_ok, sum >>, the sum main_avg + opp_signal_px as a fraction
should_hedge(main, opp_signal_px, threshold) ==
    LET main_avg == avg_entry_cents(main) IN
    IF main_avg = None THEN << FALSE, None >>
    ELSE LET sum == [num |-> main_avg[1].num + opp_signal_px * main_avg[1].den,
                     den |-> main_avg[1].den]
         IN << sum.num < threshold * sum.den, Some(sum) >>

(***************************************************************************)
(* Conditions of the loop body                                             *)
(***************************************************************************)
\* "if not state.up_token_id or not state.down_token_id"
TokensMissing(st) == st.up_token_id = None \/ st.down_token_id = None

MarketEnded_AfterEnd(st, t) == st.end_date_iso # None /\ t > st.end_date_iso[1]

\* "if now >= end_dt"
MarketEnded(st, t) == st.end_date_iso # None /\ t >= st.end_date_iso[1]

\* "if state.last_order_ts: ... (now - last).total_seconds() < min_seconds_between_orders"
Throttled(st, t) ==
    st.last_order_ts # None /\ t - st.last_order_ts[1] < min_seconds_between_orders

AlreadyHedged_Off(st) == FALSE

\* "if state.hedge is not None: sleep; continue"
AlreadyHedged(st) == st.hedge # None

StakeCapReached_Strict(main, cap) == main.total_stake_usd > cap

\* "if main.total_stake_usd >= max_stake_per_event: sleep; continue"
StakeCapReached(main, cap) == main.total_stake_usd >= cap

OppSide_Same(side) == side

\* 'opp_side = "down" if main.side == "up" else "up"'
OppSide(side) == IF side = "up" THEN "down" ELSE "up"

\* "state.up_token_id if side == 'up' else state.down_token_id"
TokenOf(st, side) == IF side = "up" THEN st.up_token_id[1] ELSE st.down_token_id[1]

\* "up_px if side == 'up' else down_px"
SignalOf(side, up, down) == IF side = "up" THEN up ELSE down

GuardPasses_NoneOk(vwap, ceiling) == vwap = None \/ vwap[1] <= ceiling

\* the guard: "vwap is None or vwap > ceiling" rejects the trade
GuardPasses(vwap, ceiling) == vwap # None /\ vwap[1] <= ceiling

RotationNeeded_Always(st, slug) == TRUE

\* "if state.current_slug != slug": rotate to the discovered market
RotationNeeded(st, slug) == st.current_slug # Some(slug)

\* place_market_buy: amt = round(usd, 2), which leaves the whole-dollar amounts
\* used here as they are; no order is sent for amt <= 0
OrderAmount(usd) == usd

\* the fills the exchange can return for a fill-or-kill buy of amt dollars
Fills(amt) == { [cost_usd |-> amt, shares |-> (amt * 100) \div px] : px \in FillPx }

(***************************************************************************)
(* History bookkeeping                                                     *)
(***************************************************************************)
GuardCall(kind, token, usd, res) ==
    [op |-> "vwap_usd", kind |-> kind, token |-> token, usd |-> usd, res |-> res]

BuyCall(kind, token, usd) ==
    [op |-> "buy", kind |-> kind, token |-> token, usd |-> usd, res |-> None]

\* what is remembered of the BotState a tick started from (its session, its
\* positions, the main stake), and whether its market had already ended then
TickStart(st, t) ==
    [current_slug |-> st.current_slug, end_date_iso |-> st.end_date_iso,
     has_main |-> st.main # None, has_hedge |-> st.hedge # None,
     stake |-> IF st.main = None THEN 0 ELSE st.main[1].total_stake_usd,
     expired |-> st.end_date_iso # None /\ t >= st.end_date_iso[1]]

\* submits holds the time of the session's last order before this tick (if
\* any) followed by the times of this tick's orders
Submitted(s, t) == Append(s, t)

LastOnly(s) == IF s = << >> THEN << >> ELSE << s[Len(s)] >>

TypeOK ==
    /\ variant \in Variants
    /\ [chunk_stake |-> chunk_stake, max_stake_per_event |-> max_stake_per_event]
           \in Settings
    /\ clock \in 0..MaxTime
    /\ pc \in {"discover", "now", "signals", "entry", "dca", "hedge", "sleep", "error",
              "invalid"}
    /\ tmp = None
    /\ writable
    /\ ~interrupted
    /\ arg = None /\ ret = None

Init ==
    /\ variant \in Variants
    /\ \E s \in Settings : /\ chunk_stake = s.chunk_stake
                           /\ max_stake_per_event = s.max_stake_per_event
    /\ clock = 0
    /\ pc = "discover"
    /\ state = BotState            \* load_state of a missing file
    /\ disk = None
    /\ now = None
    /\ up_px = None
    /\ down_px = None
    /\ tick0 = TickStart(BotState, 0)
    /\ calls = << >>
    /\ submits = << >>
    /\ tmp = None
    /\ writable = TRUE
    /\ interrupted = FALSE
    /\ arg = None
    /\ ret = None


(***************************************************************************)
(* Network collaborators                                                   *)
(***************************************************************************)
\* What discovery can hand the loop.  The standalone loop filters with
\* pick_current_market (start <= now < end); the packaged loop takes whatever
\* event the service lists as open.
Discoverable ==
    IF variant = "main"
    THEN { m \in Markets : m.startDate <= clock /\ clock < m.endDate }
    ELSE Markets

NoFill == [cost_usd |-> 0, shares |-> 0]

\* One intent = vwap_cents_for_usd(token, usd), the ceiling test, then
\* place_market_buy(token, usd).  Every way it can end, with the calls made:
\*   "error"    a call raised                (tick aborted by the except clause)
\*   "rejected" the guard refused the trade  (no order)
\*   "nofill"   place_market_buy returned None
\*   "fill"     the order filled
Outcomes(kind, token, usd, ceiling) ==
    LET estimates == { None } \cup { Some(p) : p \in GuardPx }
        passing == { g \in estimates : GuardPasses(g, ceiling) }
        amt == OrderAmount(usd)
        out(res, cs, f) == [res |-> res, calls |-> cs, fill |-> f]
    IN  { out("error", << GuardCall(kind, token, usd, None) >>, NoFill) }
        \cup { out("rejected", << GuardCall(kind, token, usd, g) >>, NoFill) :
                 g \in estimates \ passing }
        \cup (IF amt <= 0
              THEN { out("nofill", << GuardCall(kind, token, usd, g) >>, NoFill) :
                       g \in passing }
              ELSE UNION { { out("error", << GuardCall(kind, token, usd, g),
                                             BuyCall(kind, token, amt) >>, NoFill),
                             out("nofill", << GuardCall(kind, token, usd, g),
                                              BuyCall(kind, token, amt) >>, NoFill) }
                           \cup { out("fill", << GuardCall(kind, token, usd, g),
                                                 BuyCall(kind, token, amt) >>, f) :
                                    f \in Fills(amt) }
                           : g \in passing })

\* the order reached the exchange and was answered (filled or killed)
Ordered(o) ==
    /\ o.res \in {"nofill", "fill"}
    /\ \E i \in 1..Len(o.calls) : o.calls[i].op = "buy"

(***************************************************************************)
(* The tick, step by step                                                  *)
(***************************************************************************)
Locals == << now, up_px, down_px >>
Config == << variant, chunk_stake, max_stake_per_event >>
Medium == << tmp, writable >>
Shell == << interrupted >>
Call == << arg, ret >>

Persist_Silent(st, next_pc) ==
    /\ disk' = IF writable THEN save_state(st) ELSE disk
    /\ pc' = next_pc

\* "save_state(state_file, state)" inside the loop's try, then the code that
\* follows it: when the medium refuses the write, save_state raises, the
\* file stays as it was and the except clause takes over
Persist(st, next_pc) ==
    IF writable
    THEN disk' = save_state(st) /\ pc' = next_pc
    ELSE disk' = disk /\ pc' = "error"

\* "state = BotState(); save_state(...); sleep; continue"
ResetAndSleep ==
    /\ state' = BotState
    /\ Persist(BotState, "sleep")
    /\ submits' = << >>

\* gamma_list_* raised: the except clause takes over before anything is assigned
DiscoverFails ==
    /\ pc = "discover"
    /\ pc' = "error"
    /\ UNCHANGED << Config, Medium, Shell, Call, clock, state, disk, Locals, tick0, calls, submits >>

\* extract_up_down_tokens_from_gamma_market raised RuntimeError on the
\* descriptor discovery returned: the except clause takes over, nothing was
\* assigned
DiscoverInvalid ==
    /\ pc = "discover"
    /\ \E g \in Listings :
         /\ variant = "main" => (g.startDate <= clock /\ clock < g.endDate)
         /\ extract_up_down_tokens_from_gamma_market(g).t = "raise"
    /\ pc' = "invalid"
    /\ UNCHANGED << Config, Medium, Shell, Call, clock, state, disk, Locals, tick0, calls, submits >>

\* a miss taken for the end of the market: the session is thrown away
DiscoverMiss_Resets ==
    /\ pc = "discover"
    /\ IF state.current_slug # None
       THEN ResetAndSleep
       ELSE /\ pc' = "sleep"
            /\ UNCHANGED << state, disk, submits >>
    /\ UNCHANGED << Config, Medium, Shell, Call, clock, Locals, tick0, calls >>

\* discovery found no matching market
DiscoverMiss ==
    /\ pc = "discover"
    /\ IF variant = "main"
       THEN /\ pc' = "sleep"
            /\ UNCHANGED << state, disk, submits >>
       ELSE IF ~TokensMissing(state) /\ state.end_date_iso # None
            THEN IF clock < state.end_date_iso[1]
                 THEN /\ pc' = "now"       \* continue with the saved state
                      /\ UNCHANGED << state, disk, submits >>
                 ELSE ResetAndSleep
            ELSE /\ pc' = "sleep"
                 /\ UNCHANGED << state, disk, submits >>
    /\ UNCHANGED << Config, Medium, Shell, Call, clock, Locals, tick0, calls >>

\* run_bot_loop only: "matched event but it has no markets"
DiscoverNoMarkets ==
    /\ pc = "discover"
    /\ variant = "run_bot_loop"
    /\ pc' = "sleep"
    /\ UNCHANGED << Config, Medium, Shell, Call, clock, state, disk, Locals, tick0, calls, submits >>

\* discovery returned market m: rotate when the slug differs
DiscoverMarket ==
    /\ pc = "discover"
    /\ \E m \in Discoverable :
         IF RotationNeeded(state, m.slug)
         THEN /\ state' = NewSession(m)
              /\ Persist(NewSession(m), "now")
              /\ submits' = << >>
         ELSE /\ pc' = "now"
              /\ UNCHANGED << state, disk, submits >>
    /\ UNCHANGED << Config, Medium, Shell, Call, clock, Locals, tick0, calls >>

\* "now = utc_now()" and the checks made before any order-book read
SampleNow ==
    /\ pc = "now"
    /\ now' = Some(clock)
    /\ IF variant = "run_bot_loop"
       THEN IF TokensMissing(state) \/ state.end_date_iso = None
            THEN /\ pc' = "sleep"
                 /\ UNCHANGED << state, disk, submits >>
            ELSE IF MarketEnded(state, clock)
            THEN ResetAndSleep
            ELSE /\ pc' = IF Throttled(state, clock) THEN "sleep" ELSE "signals"
                 /\ UNCHANGED << state, disk, submits >>
       ELSE IF MarketEnded(state, clock)
            THEN ResetAndSleep
            ELSE IF TokensMissing(state)
            THEN ResetAndSleep
            ELSE /\ pc' = "signals"
                 /\ UNCHANGED << state, disk, submits >>
    /\ UNCHANGED << Config, Medium, Shell, Call, clock, up_px, down_px, tick0, calls >>

\* an order-book read for the signal raised
SignalsFail ==
    /\ pc = "signals"
    /\ pc' = "error"
    /\ UNCHANGED << Config, Medium, Shell, Call, clock, state, disk, Locals, tick0, calls, submits >>

\* with a main position held: the stake cap, then DCA, else the hedge test
DecideHeld(st, up, down) ==
    IF StakeCapReached(st.main[1], max_stake_per_event) THEN "sleep"
    ELSE IF should_dca(st.main[1], SignalOf(st.main[1].side, up, down), dca_step_cents)
    THEN "dca"
    ELSE IF should_hedge(st.main[1], SignalOf(OppSide(st.main[1].side), up, down),
                         hedge_sum_under_cents)[1]
    THEN "hedge"
    ELSE "sleep"

\* the decision the loop takes once both signal prices are in
Decide(up, down) ==
    IF variant = "main" /\ Throttled(state, now[1]) THEN "sleep"
    ELSE IF AlreadyHedged(state) THEN "sleep"
    ELSE IF state.main = None
    THEN (IF choose_entry_side(up, down, trigger_below_cents) = None
          THEN "sleep" ELSE "entry")
    ELSE DecideHeld(state, up, down)

AfterEntry_NoContinue(st, up, down) == DecideHeld(st, up, down)

\* the entry branch ends in "sleep; continue": a tick that enters goes no
\* further, whatever the prices
AfterEntry(st, up, down) == "sleep"

\* the prices vwap_cents_for_shares may return under the setting in force
Readings ==
    IF [chunk_stake |-> chunk_stake, max_stake_per_event |-> max_stake_per_event]
           \in DeepSettings
    THEN SignalPx \cup DeepPx
    ELSE IF [chunk_stake |-> chunk_stake, max_stake_per_event |-> max_stake_per_event]
                \in ScenarioSettings
    THEN ScenarioPx
    ELSE SignalPx

\* up_px, down_px = vwap_cents_for_shares(...) for both tokens, then the
\* branch of the body up to the first guard estimate
Signals ==
    /\ pc = "signals"
    /\ \E u \in { None } \cup { Some(p) : p \in Readings },
          d \in { None } \cup { Some(p) : p \in Readings } :
         /\ up_px' = u
         /\ down_px' = d
         /\ pc' = IF u = None \/ d = None THEN "sleep" ELSE Decide(u[1], d[1])
    /\ UNCHANGED << Config, Medium, Shell, Call, clock, state, disk, now, tick0, calls, submits >>

\* entry: guard, order, Position(...).record_fill, save_state, continue
Entry ==
    /\ pc = "entry"
    /\ LET side == choose_entry_side(up_px[1], down_px[1], trigger_below_cents)[1]
           token_id == TokenOf(state, side)
           signal_px == SignalOf(side, up_px[1], down_px[1])
       IN \E o \in Outcomes("entry", token_id, chunk_stake, max_entry_vwap_cents) :
            /\ calls' = calls \o o.calls
            /\ submits' = IF Ordered(o) THEN Submitted(submits, now[1]) ELSE submits
            /\ IF o.res = "fill"
               THEN LET pos == record_fill(Position(side, token_id), o.fill.cost_usd,
                                           o.fill.shares, signal_px, now[1])
                        st == [state EXCEPT !.main = Some(pos), !.last_order_ts = now]
                    IN /\ state' = st
                       /\ Persist(st, AfterEntry(st, up_px[1], down_px[1]))
               ELSE /\ pc' = IF o.res = "error" THEN "error" ELSE "sleep"
                    /\ UNCHANGED << state, disk >>
    /\ UNCHANGED << Config, Medium, Shell, Call, clock, Locals, tick0 >>

MainSeenByHedge_BeforeDca(before, after) == before

\* "main.record_fill(...)" updates in place the object that main names, and
\* the hedge block reads main again: it sees the position after the DCA
MainSeenByHedge(before, after) == after

\* a DCA block that notes the time of every order the exchange answered,
\* filled or not
Dca_StampsUnfilled ==
    /\ pc = "dca"
    /\ LET main == state.main[1]
           main_signal_px == SignalOf(main.side, up_px[1], down_px[1])
           opp_signal_px == SignalOf(OppSide(main.side), up_px[1], down_px[1])
       IN \E o \in Outcomes("dca", main.token_id, chunk_stake, max_entry_vwap_cents) :
            /\ calls' = calls \o o.calls
            /\ submits' = IF Ordered(o) THEN Submitted(submits, now[1]) ELSE submits
            /\ IF o.res = "error"
               THEN /\ pc' = "error"
                    /\ UNCHANGED << state, disk >>
               ELSE LET main1 == IF o.res = "fill"
                                 THEN record_fill(main, o.fill.cost_usd, o.fill.shares,
                                                  main_signal_px, now[1])
                                 ELSE main
                        st == [state EXCEPT !.main = Some(main1), !.last_order_ts = now]
                        then == IF should_hedge(main1, opp_signal_px,
                                                hedge_sum_under_cents)[1]
                                THEN "hedge" ELSE "sleep"
                    IN IF Ordered(o)
                       THEN state' = st /\ Persist(st, then)
                       ELSE pc' = then /\ UNCHANGED << state, disk >>
    /\ UNCHANGED << Config, Medium, Shell, Call, clock, Locals, tick0 >>

\* dca: guard, order, main.record_fill, save_state; then, with no continue,
\* the hedge decision on the position as it now stands
Dca ==
    /\ pc = "dca"
    /\ LET main == state.main[1]
           main_signal_px == SignalOf(main.side, up_px[1], down_px[1])
           opp_signal_px == SignalOf(OppSide(main.side), up_px[1], down_px[1])
       IN \E o \in Outcomes("dca", main.token_id, chunk_stake, max_entry_vwap_cents) :
            /\ calls' = calls \o o.calls
            /\ submits' = IF Ordered(o) THEN Submitted(submits, now[1]) ELSE submits
            /\ IF o.res = "error"
               THEN /\ pc' = "error"
                    /\ UNCHANGED << state, disk >>
               ELSE LET main1 == IF o.res = "fill"
                                 THEN record_fill(main, o.fill.cost_usd, o.fill.shares,
                                                  main_signal_px, now[1])
                                 ELSE main
                        st == [state EXCEPT !.main = Some(main1), !.last_order_ts = now]
                        then == IF should_hedge(MainSeenByHedge(main, main1), opp_signal_px,
                                                hedge_sum_under_cents)[1]
                                THEN "hedge" ELSE "sleep"
                    IN IF o.res = "fill"
                       THEN state' = st /\ Persist(st, then)
                       ELSE pc' = then /\ UNCHANGED << state, disk >>
    /\ UNCHANGED << Config, Medium, Shell, Call, clock, Locals, tick0 >>

HedgeAmount_AtTickStart(main) == tick0.stake

\* "hedge_amount = main.total_stake_usd", read when the hedge is decided
HedgeAmount(main) == main.total_stake_usd

\* hedge: guard on the full main stake, order, Position(opp).record_fill,
\* hedged_ts, sum_avg_at_hedge, save_state
Hedge ==
    /\ pc = "hedge"
    /\ LET main == state.main[1]
           opp_side == OppSide(main.side)
           opp_token == TokenOf(state, opp_side)
           opp_signal_px == SignalOf(opp_side, up_px[1], down_px[1])
           sum_signal == should_hedge(main, opp_signal_px, hedge_sum_under_cents)[2]
           hedge_amount == HedgeAmount(main)
       IN \E o \in Outcomes("hedge", opp_token, hedge_amount, max_hedge_vwap_cents) :
            /\ calls' = calls \o o.calls
            /\ submits' = IF Ordered(o) THEN Submitted(submits, now[1]) ELSE submits
            /\ IF o.res = "fill"
               THEN LET hedge_pos == record_fill(Position(opp_side, opp_token),
                                                 o.fill.cost_usd, o.fill.shares,
                                                 opp_signal_px, now[1])
                        st == [state EXCEPT !.hedge = Some(hedge_pos),
                                            !.hedged_ts = now,
                                            !.sum_avg_at_hedge = sum_signal,
                                            !.last_order_ts = now]
                    IN /\ state' = st
                       /\ Persist(st, "sleep")
               ELSE /\ pc' = IF o.res = "error" THEN "error" ELSE "sleep"
                    /\ UNCHANGED << state, disk >>
    /\ UNCHANGED << Config, Medium, Shell, Call, clock, Locals, tick0 >>

\* the next iteration starts: the tick's locals are gone
NextTick ==
    /\ pc' = "discover"
    /\ now' = None /\ up_px' = None /\ down_px' = None
    /\ calls' = << >>
    /\ tick0' = TickStart(state, clock')
    /\ submits' = LastOnly(submits)
    /\ UNCHANGED << Config, Medium, Shell, Call, state, disk >>

\* time.sleep(...) at the end of a tick: the clock moves on while the loop
\* sleeps (by less than a second when d = 0), then the next iteration
Sleep ==
    /\ pc = "sleep"
    /\ \E d \in 0..(MaxTime - clock) : clock' = clock + d
    /\ NextTick

\* an except clause that throws the session away before it sleeps
ErrorSleep_Reset ==
    /\ pc \in {"error", "invalid"}
    /\ \E d \in 0..(MaxTime - clock) : clock' = clock + d
    /\ pc' = "discover"
    /\ now' = None /\ up_px' = None /\ down_px' = None
    /\ calls' = << >>
    /\ state' = BotState
    /\ disk' = save_state(BotState)
    /\ tick0' = TickStart(BotState, clock')
    /\ submits' = << >>
    /\ UNCHANGED << Config, Medium, Shell, Call >>

\* an except clause that gives up instead of sleeping
ErrorSleep_Stops ==
    /\ pc \in {"error", "invalid"}
    /\ pc' = "stopped"
    /\ UNCHANGED << Config, Medium, Shell, Call, clock, state, disk, Locals, tick0, calls,
                    submits >>

\* "except Exception: log.exception(...); time.sleep(3.0)", then the next iteration
ErrorSleep ==
    /\ pc \in {"error", "invalid"}
    /\ \E d \in 0..(MaxTime - clock) : clock' = clock + d
    /\ NextTick

\* wall-clock time passes between the discovery reply and the loop's own
\* sample of the clock
Advance ==
    /\ pc = "now"
    /\ clock < MaxTime
    /\ clock' = clock + 1
    /\ UNCHANGED << Config, Medium, Shell, Call, pc, state, disk, Locals, tick0, calls, submits >>

Next ==
    \/ DiscoverFails
    \/ DiscoverInvalid
    \/ DiscoverMiss
    \/ DiscoverNoMarkets
    \/ DiscoverMarket
    \/ SampleNow
    \/ SignalsFail
    \/ Signals
    \/ Entry
    \/ Dca
    \/ Hedge
    \/ Sleep
    \/ ErrorSleep
    \/ Advance

Spec == Init /\ [][Next]_vars

(***************************************************************************)
(* The loop with faults: the process may be stopped or die and is started  *)
(* again on the state file it finds, and the medium may start to refuse    *)
(* writes.  A step of the loop is atomic here; a crash inside save_state   *)
(* is followed file by file in StoreSpec.                                  *)
(***************************************************************************)
\* a state file naming the session but lacking its token ids
HalfSession ==
    [BotState EXCEPT !.current_slug = Some("m1"),
                     !.current_condition_id = Some("c1"),
                     !.end_date_iso = Some(5)]

\* some text that is not JSON
Garbage == [t |-> "torn", part |-> [doc |-> PyNone, upto |-> 0]]

\* what the process may find at state_file when it starts
StartFiles == { None, Some(Garbage), Some(to_json(HalfSession)) }

load_state_Default(file) == BotState

\* "state = load_state(state_file)" before the loop
Boot(file) == load_state(file)

\* the setting explored with faults: two adds fit before the cap
FaultSettings == { s \in Settings : s.chunk_stake < s.max_stake_per_event }

FaultInit ==
    /\ variant \in Variants
    /\ \E s \in FaultSettings : /\ chunk_stake = s.chunk_stake
                                /\ max_stake_per_event = s.max_stake_per_event
    /\ clock = 0
    /\ pc = "discover"
    /\ disk \in StartFiles
    /\ state = Boot(disk)
    /\ now = None
    /\ up_px = None
    /\ down_px = None
    /\ tick0 = TickStart(state, 0)
    /\ calls = << >>
    /\ submits = << >>
    /\ tmp = None
    /\ writable \in BOOLEAN      \* a medium that takes writes, or one that is read-only
    /\ interrupted = FALSE
    /\ arg = None
    /\ ret = None

Down == {"stopped", "crashed"}

\* the process ends: stopped between two ticks, or killed inside one.  Of its
\* memory only the BotState is kept here, as it was at that moment, to be
\* compared with what the restart loads
Crash ==
    /\ pc \notin Down
    /\ pc' = IF pc \in {"discover", "sleep", "error", "invalid"} THEN "stopped"
             ELSE "crashed"
    /\ now' = None /\ up_px' = None /\ down_px' = None
    /\ calls' = << >>
    /\ submits' = << >>
    /\ tick0' = TickStart(BotState, 0)
    /\ UNCHANGED << Config, Medium, Shell, Call, clock, state, disk >>

\* the process is started again: load_state, then the loop
Restart ==
    /\ pc \in Down
    /\ state' = Boot(disk)
    /\ pc' = "discover"
    /\ tick0' = TickStart(state', clock)
    /\ UNCHANGED << Config, Medium, Shell, Call, clock, disk, Locals, calls, submits >>

FaultNext ==
    \/ DiscoverFails
    \/ DiscoverInvalid
    \/ DiscoverMiss
    \/ DiscoverNoMarkets
    \/ DiscoverMarket
    \/ SampleNow
    \/ SignalsFail
    \/ Signals
    \/ Entry
    \/ Dca
    \/ Hedge
    \/ Sleep
    \/ ErrorSleep
    \/ Advance
    \/ Crash
    \/ Restart

FaultSpec == FaultInit /\ [][FaultNext]_vars


(***************************************************************************)
(* The loop under a setting that lets a session add twice after its entry  *)
(***************************************************************************)
DeepInit ==
    /\ variant \in Variants
    /\ \E s \in DeepSettings : /\ chunk_stake = s.chunk_stake
                               /\ max_stake_per_event = s.max_stake_per_event
    /\ clock = 0
    /\ pc = "discover"
    /\ state = BotState
    /\ disk = None
    /\ now = None
    /\ up_px = None
    /\ down_px = None
    /\ tick0 = TickStart(BotState, 0)
    /\ calls = << >>
    /\ submits = << >>
    /\ tmp = None
    /\ writable = TRUE
    /\ interrupted = FALSE
    /\ arg = None
    /\ ret = None

DeepSpec == DeepInit /\ [][Next]_vars

(***************************************************************************)
(* The loop on the prices of the end-to-end scenario (trigger 25, step 2)  *)
(***************************************************************************)
ScenarioInit ==
    /\ variant \in Variants
    /\ \E s \in ScenarioSettings : /\ chunk_stake = s.chunk_stake
                                   /\ max_stake_per_event = s.max_stake_per_event
    /\ clock = 0
    /\ pc = "discover"
    /\ state = BotState
    /\ disk = None
    /\ now = None
    /\ up_px = None
    /\ down_px = None
    /\ tick0 = TickStart(BotState, 0)
    /\ calls = << >>
    /\ submits = << >>
    /\ tmp = None
    /\ writable = TRUE
    /\ interrupted = FALSE
    /\ arg = None
    /\ ret = None

ScenarioSpec == ScenarioInit /\ [][Next]_vars

(***************************************************************************)
(* The loop and Ctrl+C.  Python raises KeyboardInterrupt in the main thread *)
(* only.  The standalone loop runs in the main thread: the exception       *)
(* leaves whatever call is under way and ends the process through          *)
(* "except KeyboardInterrupt: sys.exit(0)" (or uncaught, from the sleep of  *)
(* the except clause).  The packaged loop is started as the thread         *)
(* "bot-loop" (daemon=False) while the main thread serves /health: the     *)
(* interrupt ends the main thread and the loop's thread runs on.           *)
(***************************************************************************)
Interrupt ==
    /\ ~interrupted
    /\ interrupted' = TRUE
    /\ pc' = IF variant = "main" THEN "stopped" ELSE pc
    /\ UNCHANGED << Config, Medium, Call, clock, state, disk, Locals, tick0, calls,
                    submits >>

InterruptNext ==
    \/ DiscoverFails
    \/ DiscoverInvalid
    \/ DiscoverMiss
    \/ DiscoverNoMarkets
    \/ DiscoverMarket
    \/ SampleNow
    \/ SignalsFail
    \/ Signals
    \/ Entry
    \/ Dca
    \/ Hedge
    \/ Sleep
    \/ ErrorSleep
    \/ Advance
    \/ Interrupt

InterruptSpec == Init /\ [][InterruptNext]_vars

(***************************************************************************)
(* The state store alone: save_state followed file by file (open the .tmp  *)
(* file, write it chunk by chunk, os.replace it onto the state file), with *)
(* exceptions, process death at any point and restarts; and load_state on  *)
(* whatever the state file holds.                                          *)
(***************************************************************************)
\* the text of document doc as far as its first upto chunks: it parses only
\* when complete
Torn(doc, upto) == [t |-> "torn", part |-> [doc |-> doc, upto |-> upto]]

\* BotStates the loop hands to save_state
StoreStates ==
    LET m == CHOOSE x \in Markets : x.slug = "m1"
        main == record_fill(Position("up", m.up), 2, 8, 24, 0)
        hedge == record_fill(Position("down", m.down), 2, 4, 22, 3)
        held == [NewSession(m) EXCEPT !.main = Some(main), !.last_order_ts = Some(0)]
    IN { BotState, NewSession(m), held,
         [held EXCEPT !.hedge = Some(hedge), !.hedged_ts = Some(3),
                      !.sum_avg_at_hedge = should_hedge(main, 22, hedge_sum_under_cents)[2],
                      !.last_order_ts = Some(3)] }

\* state files that no save_state wrote: unreadable, not JSON, JSON that is
\* no object, objects of the wrong shape
ForeignFiles ==
    { Some([t |-> "unreadable"]),
      Some(Garbage),
      Some(PyList),
      Some(PyStr("m1")),
      Some(PyDict([current_slug |-> PyStr("m1"), main |-> PyStr("up")])),
      Some(PyDict([current_slug |-> PyStr("m1"), main |-> PyDict([side |-> PyStr("up")])])),
      Some(PyDict([current_slug |-> PyStr("m1"),
                   main |-> PyDict([side |-> PyStr("up"), token_id |-> PyStr("u1"),
                                    total_stake_usd |-> PyStr("two"),
                                    total_shares |-> PyNum(8)])])),
      Some(PyDict([current_slug |-> PyStr("m1"),
                   main |-> PyDict([side |-> PyStr("up"), token_id |-> PyStr("u1"),
                                    total_stake_usd |-> [t |-> "numstr", n |-> 2],
                                    total_shares |-> PyNone])])) }

StoreFiles == { None } \cup ForeignFiles \cup { save_state(st) : st \in StoreStates }

\* a save that opens and writes the state file itself
SaveTarget_InPlace == "path"

\* 'tmp = path + ".tmp"': the file save_state opens and writes
SaveTarget == "tmp"

\* the file save_state is writing gets content c
Written(c) ==
    IF SaveTarget = "tmp" THEN tmp' = c /\ disk' = disk
    ELSE disk' = c /\ tmp' = tmp

Loop == << clock, now, up_px, down_px, tick0, calls, submits, writable >>

StoreInit ==
    /\ variant = "run_bot_loop"
    /\ chunk_stake = 2
    /\ max_stake_per_event = 3
    /\ clock = 0
    /\ now = None /\ up_px = None /\ down_px = None
    /\ tick0 = TickStart(BotState, 0)
    /\ calls = << >>
    /\ submits = << >>
    /\ writable = TRUE
    /\ disk \in StoreFiles
    /\ tmp \in { None, Some(Garbage) }       \* a .tmp file an earlier run may have left
    /\ state = load_state(disk)
    /\ pc = "idle"
    /\ interrupted = FALSE
    /\ arg = None
    /\ ret = None

\* the loop assigns a new BotState and calls save_state(path, state)
Update ==
    /\ pc = "idle"
    /\ \E st \in StoreStates \ { state } : state' = st
    /\ pc' = "save_open"
    /\ UNCHANGED << Config, Loop, Shell, Call, disk, tmp >>

\* 'with open(tmp, "w") as f': the file is created or truncated
SaveOpen ==
    /\ pc = "save_open"
    /\ Written(Some(Torn(to_json(state), 0)))
    /\ pc' = "save_write"
    /\ UNCHANGED << Config, Loop, Shell, Call, state >>

\* json.dump: one more chunk reaches the file; after the last one the file
\* is closed and holds the whole document
SaveWrite ==
    /\ pc = "save_write"
    /\ LET f == IF SaveTarget = "tmp" THEN tmp[1] ELSE disk[1] IN
         IF f.part.upto + 1 < Chunks
         THEN /\ Written(Some(Torn(f.part.doc, f.part.upto + 1)))
              /\ pc' = "save_write"
         ELSE /\ Written(Some(f.part.doc))
              /\ pc' = "save_replace"
    /\ UNCHANGED << Config, Loop, Shell, Call, state >>

\* os.replace(tmp, path): the state file becomes the .tmp file, in one step
SaveReplace ==
    /\ pc = "save_replace"
    /\ IF SaveTarget = "tmp" THEN disk' = tmp /\ tmp' = None
       ELSE UNCHANGED << disk, tmp >>
    /\ pc' = "idle"
    /\ UNCHANGED << Config, Loop, Shell, Call, state >>

\* open, write or os.replace raises OSError: save_state is left, the files
\* stay as they are
SaveRaises ==
    /\ pc \in {"save_open", "save_write", "save_replace"}
    /\ pc' = "idle"
    /\ UNCHANGED << Config, Loop, Shell, Call, state, disk, tmp >>

\* the process dies, inside save_state or outside
StoreCrash ==
    /\ pc # "stopped"
    /\ pc' = "stopped"
    /\ UNCHANGED << Config, Loop, Shell, Call, state, disk, tmp >>

\* the process is started again: state = load_state(state_file)
StoreRestart ==
    /\ pc = "stopped"
    /\ state' = Boot(disk)
    /\ pc' = "idle"
    /\ UNCHANGED << Config, Loop, Shell, Call, disk, tmp >>

StoreNext ==
    \/ Update
    \/ SaveOpen
    \/ SaveWrite
    \/ SaveReplace
    \/ SaveRaises
    \/ StoreCrash
    \/ StoreRestart

StoreSpec == StoreInit /\ [][StoreNext]_vars

(***************************************************************************)
(* to_json and from_json on every shape of BotState                        *)
(***************************************************************************)
OptOf(S) == { None } \cup { Some(x) : x \in S }

\* Positions with every optional field absent or present, zero included
CodecPositions(side, token_id) ==
    { [side |-> side, token_id |-> token_id, total_stake_usd |-> stake,
       total_shares |-> 8, last_add_price_cents |-> px, first_entry_ts |-> t1,
       last_add_ts |-> t2] :
        stake \in {0, 2}, px \in OptOf({0, 24}), t1 \in OptOf({0}), t2 \in OptOf({3}) }

\* BotStates with main and hedge absent or present and every optional field
\* absent or present, the empty string and zero included
CodecStates ==
    { [current_slug |-> slug, current_condition_id |-> cond, end_date_iso |-> end,
       up_token_id |-> up, down_token_id |-> down, main |-> main, hedge |-> hedge,
       hedged_ts |-> hts, sum_avg_at_hedge |-> sum, last_order_ts |-> lts] :
        slug \in OptOf({"m1"}), cond \in OptOf({"c1"}), end \in OptOf({5}),
        up \in OptOf({"", "u1"}), down \in OptOf({"d1"}),
        main \in OptOf(CodecPositions("up", "u1")),
        hedge \in OptOf({ p \in CodecPositions("down", "d1") :
                             p.total_stake_usd = 2 /\ p.first_entry_ts = p.last_add_ts }),
        hts \in OptOf({3}),
        sum \in OptOf({ [num |-> 0, den |-> 1], [num |-> 368, den |-> 8] }),
        lts \in OptOf({3}) }

CodecInit ==
    /\ variant = "run_bot_loop"
    /\ chunk_stake = 2
    /\ max_stake_per_event = 3
    /\ clock = 0
    /\ now = None /\ up_px = None /\ down_px = None
    /\ tick0 = TickStart(BotState, 0)
    /\ calls = << >>
    /\ submits = << >>
    /\ writable = TRUE
    /\ tmp = None
    /\ disk = None
    /\ state \in CodecStates
    /\ pc = "to_json"
    /\ interrupted = FALSE
    /\ arg = None
    /\ ret = None

\* d = st.to_json(), kept in the place of the file's content
Encode ==
    /\ pc = "to_json"
    /\ disk' = Some(to_json(state))
    /\ pc' = "from_json"
    /\ UNCHANGED << Config, Loop, Shell, Call, state, tmp >>

\* st2 = BotState.from_json(d)
Decode ==
    /\ pc = "from_json"
    /\ state' = from_json(disk[1])
    /\ pc' = "done"
    /\ UNCHANGED << Config, Loop, Shell, Call, disk, tmp >>

CodecNext ==
    \/ Encode
    \/ Decode

CodecSpec == CodecInit /\ [][CodecNext]_vars

(***************************************************************************)
(* The strategy functions called on their own, prices in cents             *)
(***************************************************************************)
\* calls choose_entry_side(up_px, down_px, trigger_below_cents)
EntryCalls ==
    { [f |-> "choose_entry_side", up_px |-> u, down_px |-> d, trigger |-> t] :
        u \in {23, 24, 25, 26, 30}, d \in {23, 24, 25, 26, 30}, t \in {24, 25} }

\* calls should_dca(main, main_signal_px, step_cents), main before and after
\* its first fill
DcaCalls ==
    { [f |-> "should_dca", main |-> main, main_signal_px |-> px, step_cents |-> step] :
        main \in { Position("up", "u1") }
                   \cup { record_fill(Position("up", "u1"), 3, 10, last, 0) :
                             last \in {24, 30} },
        px \in {21, 22, 23, 27, 28, 29, 30, 31}, step \in {1, 2} }

\* calls should_hedge(main, opp_signal_px, hedge_sum_under_cents), main with
\* and without shares, average entry prices 30, 25 and 100/3 cents
HedgeCalls ==
    { [f |-> "should_hedge", main |-> main, opp_signal_px |-> px, threshold |-> 98] :
        main \in { Position("up", "u1") }
                   \cup { record_fill(Position("up", "u1"), fill[1], fill[2], 24, 0) :
                             fill \in { << 3, 10 >>, << 2, 8 >>, << 1, 3 >> } },
        px \in {64, 65, 67, 68, 69, 73, 75} }

StrategyInit ==
    /\ variant \in Variants
    /\ chunk_stake = 2
    /\ max_stake_per_event = 3
    /\ clock = 0
    /\ now = None /\ up_px = None /\ down_px = None
    /\ tick0 = TickStart(BotState, 0)
    /\ calls = << >>
    /\ submits = << >>
    /\ writable = TRUE
    /\ tmp = None
    /\ disk = None
    /\ state = BotState
    /\ interrupted = FALSE
    /\ arg \in { Some(c) : c \in EntryCalls \cup DcaCalls \cup HedgeCalls }
    /\ ret = None
    /\ pc = "call"

Returns(v) ==
    /\ ret' = Some(v)
    /\ pc' = "returned"
    /\ UNCHANGED << Config, Loop, Shell, arg, state, disk, tmp >>

\* the entry side, as the loop that runs chooses it
ChooseEntrySide ==
    /\ pc = "call" /\ arg[1].f = "choose_entry_side"
    /\ Returns(IF variant = "main"
               THEN chosen_side(arg[1].up_px, arg[1].down_px, arg[1].trigger)
               ELSE choose_entry_side(arg[1].up_px, arg[1].down_px, arg[1].trigger))

ShouldDca ==
    /\ pc = "call" /\ arg[1].f = "should_dca"
    /\ Returns(should_dca(arg[1].main, arg[1].main_signal_px, arg[1].step_cents))

ShouldHedge ==
    /\ pc = "call" /\ arg[1].f = "should_hedge"
    /\ Returns(should_hedge(arg[1].main, arg[1].opp_signal_px, arg[1].threshold))

StrategyNext ==
    \/ ChooseEntrySide
    \/ ShouldDca
    \/ ShouldHedge

StrategySpec == StrategyInit /\ [][StrategyNext]_vars

(***************************************************************************)
(* The two estimators (execution.py, and their copies in src/main.py),     *)
(* walking the ask levels of a book in the order the book lists them.  A   *)
(* level's price and size are None when the key is missing or float()      *)
(* refuses it.  Prices are in cents, sizes in 1/10000 share, so money is   *)
(* in millionths of a dollar and a vwap is the fraction num/den cents; on  *)
(* these whole numbers the 1e-9 and 1e-12 slacks of the code change no     *)
(* comparison and its 1e-6 dollar slack is Slack.                          *)
(***************************************************************************)
MaxLevels == 2                      \* ask levels in a book
Slack == 1                          \* "budget - 1e-6"

Min(a, b) == IF a <= b THEN a ELSE b

\* "if p is None or s is None or p <= 0 or s <= 0: continue"; the standalone
\* vwap_cents_for_shares has "if p is None or s is None or s <= 0"
LevelSkipped(copy, f, lvl) ==
    \/ lvl.price = None
    \/ lvl.size = None
    \/ lvl.size[1] <= 0
    \/ lvl.price[1] <= 0 /\ ~(copy = "main" /\ f = "vwap_cents_for_shares")

\* the for loop of vwap_cents_for_shares: got and cost when it is left
RECURSIVE SharesWalk(_, _, _, _, _)
SharesWalk(copy, asks, need, got, cost) ==
    IF asks = << >> THEN [got |-> got, cost |-> cost]
    ELSE LET lvl == Head(asks) IN
         IF LevelSkipped(copy, "vwap_cents_for_shares", lvl)
         THEN SharesWalk(copy, Tail(asks), need, got, cost)
         ELSE LET take == Min(lvl.size[1], need - got)
                  cost1 == cost + take * lvl.price[1]
                  got1 == got + take
              IN IF got1 >= need THEN [got |-> got1, cost |-> cost1]
                 ELSE SharesWalk(copy, Tail(asks), need, got1, cost1)

vwap_cents_for_shares(copy, asks, shares) ==
    IF shares <= 0 THEN None
    ELSE LET w == SharesWalk(copy, asks, shares, 0, 0) IN
         IF w.got < shares THEN None
         ELSE Some([num |-> w.cost, den |-> w.got])

\* the for loop of vwap_cents_for_usd: what was spent, the levels' shares
\* taken whole, and the part of a last level taken (remaining / p shares)
RECURSIVE UsdWalk(_, _, _, _, _)
UsdWalk(copy, asks, budget, spent, whole) ==
    IF asks = << >> THEN [spent |-> spent, whole |-> whole, part |-> None]
    ELSE LET lvl == Head(asks) IN
         IF LevelSkipped(copy, "vwap_cents_for_usd", lvl)
         THEN UsdWalk(copy, Tail(asks), budget, spent, whole)
         ELSE LET p == lvl.price[1]
                  lvl_cost == lvl.size[1] * p
                  remaining == budget - spent
              IN IF spent + lvl_cost <= budget
                 THEN IF spent + lvl_cost >= budget
                      THEN [spent |-> spent + lvl_cost, whole |-> whole + lvl.size[1],
                            part |-> None]
                      ELSE UsdWalk(copy, Tail(asks), budget, spent + lvl_cost,
                                   whole + lvl.size[1])
                 ELSE IF (IF copy = "main" THEN remaining < 0 ELSE remaining <= 0)
                      THEN [spent |-> spent, whole |-> whole, part |-> None]
                      ELSE [spent |-> spent + remaining, whole |-> whole,
                            part |-> Some([remaining |-> remaining, p |-> p])]

vwap_cents_for_usd_AnySpend(copy, asks, usd) ==
    IF usd <= 0 THEN None
    ELSE LET w == UsdWalk(copy, asks, usd, 0, 0)
             shares == IF w.part = None THEN [num |-> w.whole, den |-> 1]
                       ELSE [num |-> w.whole * w.part[1].p + w.part[1].remaining,
                             den |-> w.part[1].p]
         IN IF shares.num <= 0 THEN None
            ELSE Some([num |-> w.spent * shares.den, den |-> shares.num])

\* None for a budget <= 0, for "spent < budget - 1e-6" and without shares;
\* else spent / shares
vwap_cents_for_usd(copy, asks, usd) ==
    IF usd <= 0 THEN None
    ELSE LET w == UsdWalk(copy, asks, usd, 0, 0)
             shares == IF w.part = None THEN [num |-> w.whole, den |-> 1]
                       ELSE [num |-> w.whole * w.part[1].p + w.part[1].remaining,
                             den |-> w.part[1].p]
         IN IF w.spent < usd - Slack \/ shares.num <= 0 THEN None
            ELSE Some([num |-> w.spent * shares.den, den |-> shares.num])

\* the levels a book may list: well-formed ones at 20 and 50 cents, and ones
\* with price or size missing or zero
Levels ==
    { [price |-> p, size |-> z] :
        p \in { None, Some(0), Some(20), Some(50) },
        z \in { None, Some(0), Some(2), Some(3) } }

RECURSIVE BooksOf(_)
BooksOf(n) ==
    IF n = 0 THEN { << >> }
    ELSE LET shorter == BooksOf(n - 1) IN
         shorter \cup { Append(b, l) : b \in { x \in shorter : Len(x) = n - 1 },
                                       l \in Levels }

Books == BooksOf(MaxLevels)

\* calls of the estimators: signal_shares and the dollar amounts asked for
BookCalls ==
    { [f |-> "vwap_cents_for_shares", asks |-> b, amount |-> q] :
        b \in Books, q \in {0, 1, 2, 3, 4, 5} }
    \cup { [f |-> "vwap_cents_for_usd", asks |-> b, amount |-> usd] :
             b \in Books, usd \in {0, 1, 41, 70, 100, 190} }

BookInit ==
    /\ variant \in Variants
    /\ chunk_stake = 2
    /\ max_stake_per_event = 3
    /\ clock = 0
    /\ now = None /\ up_px = None /\ down_px = None
    /\ tick0 = TickStart(BotState, 0)
    /\ calls = << >>
    /\ submits = << >>
    /\ writable = TRUE
    /\ tmp = None
    /\ disk = None
    /\ state = BotState
    /\ interrupted = FALSE
    /\ arg \in { Some(c) : c \in BookCalls }
    /\ ret = None
    /\ pc = "call"

\* the copy of the estimators the running loop calls
VwapForShares ==
    /\ pc = "call" /\ arg[1].f = "vwap_cents_for_shares"
    /\ Returns(vwap_cents_for_shares(variant, arg[1].asks, arg[1].amount))

VwapForUsd ==
    /\ pc = "call" /\ arg[1].f = "vwap_cents_for_usd"
    /\ Returns(vwap_cents_for_usd(variant, arg[1].asks, arg[1].amount))

BookNext ==
    \/ VwapForShares
    \/ VwapForUsd

BookSpec == BookInit /\ [][BookNext]_vars

(***************************************************************************)
(* Properties                                                              *)
(***************************************************************************)
Buys(cs) == Cardinality({ i \in 1..Len(cs) : cs[i].op = "buy" })

\* the tick got both signal prices and was not stopped by the throttle
TickDecided ==
    /\ pc = "sleep"
    /\ up_px # None /\ down_px # None
    /\ ~(state.last_order_ts # None
         /\ now[1] - state.last_order_ts[1] < min_seconds_between_orders)

\* the main-side signal of this tick sits at least a DCA step under the last add
DcaPriceHit ==
    /\ state.main # None
    /\ state.main[1].last_add_price_cents # None
    /\ (IF state.main[1].side = "up" THEN up_px[1] ELSE down_px[1])
         <= state.main[1].last_add_price_cents[1] - dca_step_cents

\* average entry of main plus this tick's opposite signal is under the hedge threshold
HedgePriceHit ==
    /\ state.main # None
    /\ state.main[1].total_shares > 0
    /\ state.main[1].total_stake_usd * 100
         + (IF state.main[1].side = "up" THEN down_px[1] ELSE up_px[1])
             * state.main[1].total_shares
       < hedge_sum_under_cents * state.main[1].total_shares

\* C1: once the session holds a hedge, no step submits an order or changes
\* main or hedge, whatever the signal prices; the positions only ever go away
\* together, when the session is reset (market end, rotation).
C1_HedgedIsTerminal ==
    [][ state.hedge # None =>
          /\ Buys(calls') <= Buys(calls)
          /\ \/ state'.main = state.main /\ state'.hedge = state.hedge
             \/ state'.main = None /\ state'.hedge = None ]_vars

\* a hedged session went through a later, unthrottled tick whose prices would
\* have called for a DCA, and nothing was estimated or ordered
C1_Witness ==
    /\ TickDecided
    /\ tick0.has_hedge /\ state.hedge # None
    /\ DcaPriceHit
    /\ calls = << >>

\* C2: a hedge exists only next to a main position that has a fill; it is
\* created only in a tick that started with main present and hedge absent (same
\* market), by a single fill, and is never added to afterwards.
C2_HedgeNeedsMainOnce ==
    [][ /\ state'.hedge # None =>
             /\ state'.main # None
             /\ state'.main[1].total_shares > 0
             /\ state'.main[1].first_entry_ts # None
        /\ state.hedge = None /\ state'.hedge # None =>
             /\ tick0.has_main /\ ~tick0.has_hedge
             /\ tick0.current_slug = state'.current_slug
             /\ state'.hedge[1].first_entry_ts = now
             /\ state'.hedge[1].last_add_ts = now
             /\ Buys(calls') = Buys(calls) + 1
        /\ state.hedge # None =>
             state'.hedge = state.hedge \/ state'.hedge = None ]_vars

\* the tick that created the hedge has just ended, on a main position of two fills
C2_Witness ==
    /\ pc = "sleep"
    /\ state.hedge # None /\ ~tick0.has_hedge /\ tick0.has_main
    /\ state.main[1].first_entry_ts # state.main[1].last_add_ts

\* C3: whenever main and hedge both exist their sides are "up" and "down", one
\* each, and the hedge holds the session's token of the side opposite to main.
C3_OppositeSides ==
    state.main # None /\ state.hedge # None =>
        /\ { state.main[1].side, state.hedge[1].side } = { "up", "down" }
        /\ state.hedge[1].token_id =
             (IF state.main[1].side = "up" THEN state.down_token_id[1]
                                           ELSE state.up_token_id[1])
        /\ state.main[1].token_id =
             (IF state.main[1].side = "up" THEN state.up_token_id[1]
                                           ELSE state.down_token_id[1])

\* a session whose main is on "down" and is hedged with the up token
C3_Witness ==
    /\ state.main # None /\ state.hedge # None
    /\ state.main[1].side = "down"
    /\ state.hedge[1].token_id = "u1"

\* C4: any two orders submitted during a session lie at least
\* min_seconds_between_orders apart; in particular one tick never submits two.
C4_OrdersThrottled ==
    \A i, j \in 1..Len(submits) :
        i < j => submits[j] - submits[i] >= min_seconds_between_orders

\* C5: every order follows, in the same tick, a vwap-for-budget estimate for
\* the same token and the same USD amount, and that estimate is present and at
\* most max_entry_vwap_cents (entry, DCA) or max_hedge_vwap_cents (hedge); an
\* absent or too high estimate is followed by no order for that intent.
C5_GuardBeforeOrder ==
    \A i \in 1..Len(calls) :
        LET ceiling == IF calls[i].kind = "hedge" THEN max_hedge_vwap_cents
                                                  ELSE max_entry_vwap_cents
        IN /\ calls[i].op = "buy" =>
                /\ i > 1
                /\ calls[i - 1].op = "vwap_usd"
                /\ calls[i - 1].kind = calls[i].kind
                /\ calls[i - 1].token = calls[i].token
                /\ calls[i - 1].usd = calls[i].usd
                /\ calls[i - 1].res # None
                /\ calls[i - 1].res[1] <= ceiling
           /\ (calls[i].op = "vwap_usd"
               /\ (calls[i].res = None \/ calls[i].res[1] > ceiling)) =>
                (i = Len(calls) \/ calls[i + 1].kind # calls[i].kind)

\* a tick made a DCA order and then a hedge order whose estimate (60 cents)
\* is above the entry ceiling and under the hedge ceiling
C5_Witness ==
    /\ Len(calls) = 4
    /\ calls[2].op = "buy" /\ calls[2].kind = "dca"
    /\ calls[3].res = << 60 >>
    /\ calls[4].op = "buy" /\ calls[4].kind = "hedge"

\* C6: the stake of the main position never exceeds max_stake_per_event.
C6_StakeNeverAboveCap ==
    state.main # None => state.main[1].total_stake_usd <= max_stake_per_event

\* C7: once main.total_stake_usd >= max_stake_per_event no step adds to main:
\* no order on main's token is submitted and main stays as it is until the
\* session is reset.
C7_NoAddAtCap ==
    [][ (state.main # None
         /\ state.main[1].total_stake_usd >= max_stake_per_event) =>
          /\ \/ state'.main = state.main
             \/ state'.main = None
          /\ \A i \in 1..Len(calls') :
                i > Len(calls) => calls'[i].token # state.main[1].token_id ]_vars

\* a capped, unhedged session went through a later, unthrottled tick whose
\* main-side price called for a DCA, and main was left alone
C7_Witness ==
    /\ TickDecided
    /\ tick0.has_main /\ state.main # None /\ state.hedge = None
    /\ state.main[1].total_stake_usd >= max_stake_per_event
    /\ DcaPriceHit
    /\ Buys(calls) = 0

\* C8: in a tick that starts with main at or above the cap and no hedge, and
\* sees avg_entry(main) + opposite signal < hedge_sum_under_cents, the hedge
\* decision is still evaluated: the hedge guard estimate is made (and, when it
\* passes and the order fills, the hedge is created in that tick).
C8_HedgeEvaluatedAtCap ==
    (/\ TickDecided
     /\ tick0.has_main /\ ~tick0.has_hedge
     /\ tick0.current_slug = state.current_slug
     /\ state.main # None
     /\ state.last_order_ts # now
     /\ state.main[1].total_stake_usd >= max_stake_per_event
     /\ HedgePriceHit)
    => \E i \in 1..Len(calls) : calls[i].kind = "hedge"

Phase(st) ==
    IF st.current_slug = None THEN "NoMarket"
    ELSE IF st.hedge # None THEN "hedged"
    ELSE IF st.main # None THEN "entered"
    ELSE "unentered"

\* C9: the session phase moves only along NoMarket -> unentered,
\* unentered -> entered, entered -> entered, entered -> hedged and
\* any -> NoMarket, a rotation to another market being retirement followed at
\* once by the new identity; within one tick and one market a session never
\* goes from unentered to hedged, nor from entered or hedged back to unentered.
C9_PhaseEdges ==
    [][ LET p == Phase(state)
            q == Phase(state')
            same == state'.current_slug = state.current_slug
        IN /\ \/ q = "NoMarket"
              \/ p = "NoMarket" /\ q = "unentered"
              \/ ~same /\ q = "unentered"
              \/ same /\ p = q /\ p # "entered" /\ state' = state
              \/ same /\ p = "entered" /\ q = "entered"
                      /\ state'.main[1].total_stake_usd >= state.main[1].total_stake_usd
              \/ same /\ p = "unentered" /\ q = "entered"
              \/ same /\ p = "entered" /\ q = "hedged"
           /\ (tick0'.current_slug = state'.current_slug /\ tick0' = tick0) =>
                /\ ~tick0.has_main => q # "hedged"
                /\ tick0.has_main => q \notin {"unentered"} ]_vars

\* one tick rotated away from a hedged session and entered the new market
C9_Witness ==
    /\ pc = "sleep"
    /\ tick0.current_slug = << "m1" >> /\ tick0.has_hedge
    /\ state.current_slug = << "m2" >>
    /\ Phase(state) = "entered"

\* C10: a tick that starts at or after the end_date of the tracked session and
\* completes leaves that session retired (a state without the old identity and
\* positions) and persisted, whether or not discovery returned a market.
C10_RetiredAtEnd ==
    (pc = "sleep" /\ tick0.expired) =>
        /\ state.current_slug # tick0.current_slug
        /\ disk = Some(to_json(state))

\* the position fields of a BotState are all absent
NoPositionState(st) ==
    /\ st.main = None /\ st.hedge = None /\ st.hedged_ts = None
    /\ st.sum_avg_at_hedge = None /\ st.last_order_ts = None

\* C11 (as amended): the step that retires the session (market end) or
\* rotates it to another slug installs a state in which main, hedge,
\* hedged_ts, sum_avg_at_hedge and last_order_ts are all absent, in memory and
\* in the state file, whatever the old session held; retirement leaves the
\* default BotState.  (The tick that rotated goes on and may enter the new
\* market before it ends.)
C11_ResetIsTotal ==
    [][ state'.current_slug # state.current_slug =>
          /\ NoPositionState(state')
          /\ disk' = Some(to_json(state'))
          /\ NoPositionState(load_state(disk'))
          /\ state'.current_slug = None => state' = BotState ]_vars

\* the loop has just rotated from m1, where it held an unhedged main
\* position, to m2
C11_Witness ==
    /\ pc = "now"
    /\ tick0.current_slug = << "m1" >> /\ tick0.has_main /\ ~tick0.has_hedge
    /\ state.current_slug = << "m2" >>
    /\ NoPositionState(state)
    /\ disk = Some(to_json(state))

\* C11 (as stated): immediately after a tick that retired or rotated a session
\* holding a main position, the position fields are absent in memory and in
\* the state file.
C11_AbsentAfterTick ==
    (pc = "sleep" /\ tick0.has_main /\ tick0.current_slug # state.current_slug) =>
        /\ NoPositionState(state)
        /\ disk # None /\ NoPositionState(load_state(disk))

\* the fills a BotState holds: those of main, each of chunk_stake dollars, and
\* the single one of the hedge
FillCount(st) ==
    (IF st.main = None THEN 0 ELSE st.main[1].total_stake_usd \div chunk_stake)
    + (IF st.hedge = None THEN 0 ELSE 1)

C13_SaveIsAtomic ==
    [][ /\ \/ disk' = disk
           \/ pc = "save_replace" /\ disk' = Some(to_json(state))
        /\ (disk # None /\ disk[1].t = "dict") => (disk' # None /\ disk'[1].t = "dict")
        /\ pc = "stopped" =>
             /\ state' = load_state(disk)
             /\ disk = Some(to_json(state)) => state' = state ]_vars

\* the process died while save_state was writing a hedged state: the .tmp
\* file holds part of it, the state file the complete state saved before
C13_Witness ==
    /\ pc = "stopped"
    /\ tmp # None /\ tmp[1].t = "torn" /\ tmp[1].part.upto = 1
    /\ tmp[1].part.doc = to_json(state) /\ state.hedge # None
    /\ disk # None /\ disk[1].t = "dict"
    /\ load_state(disk).main # None /\ load_state(disk).hedge = None

PositionKeys ==
    { "side", "token_id", "total_stake_usd", "total_shares", "last_add_price_cents",
      "first_entry_ts", "last_add_ts" }

StateKeys ==
    { "current_slug", "current_condition_id", "end_date_iso", "up_token_id",
      "down_token_id", "main", "hedge", "hedged_ts", "sum_avg_at_hedge",
      "last_order_ts" }

\* p has the shape of a Position in the file: every key, values of the field's type
PositionShaped(p) ==
    /\ p.t = "dict"
    /\ DOMAIN p.d = PositionKeys
    /\ p.d.side.t = "str" /\ p.d.token_id.t = "str"
    /\ p.d.total_stake_usd.t = "num" /\ p.d.total_shares.t = "num"
    /\ p.d.last_add_price_cents.t \in {"null", "num"}
    /\ p.d.first_entry_ts.t \in {"null", "str"}
    /\ p.d.last_add_ts.t \in {"null", "str"}

\* d has the shape of a Session State in the file
StateShaped(d) ==
    /\ d.t = "dict"
    /\ DOMAIN d.d = StateKeys
    /\ \A k \in StateKeys \ {"main", "hedge", "sum_avg_at_hedge"} :
          d.d[k].t \in {"null", "str"}
    /\ d.d.sum_avg_at_hedge.t \in {"null", "num"}
    /\ d.d.main.t = "null" \/ PositionShaped(d.d.main)
    /\ d.d.hedge.t = "null" \/ PositionShaped(d.d.hedge)

\* C14: whenever the state file is missing, unreadable, not valid JSON or
\* JSON of the wrong shape, load_state returns the default BotState (and it
\* never raises).
C14_LoadDefaultsOnBadFile ==
    (disk = None \/ ~StateShaped(disk[1])) => load_state(disk) = BotState

C16_AtMostOneFillLost ==
    pc \in Down => FillCount(state) - FillCount(load_state(disk)) <= 1

\* C17: when save_state fails right after a fill was applied, the tick ends
\* in the except clause that logs the exception (the failure is reported), the
\* file is as before, the in-memory state holds the fill, and the loop goes on
\* to the next tick with that state; a load never ends in the except clause:
\* the restart goes straight to the loop with what load_state returned.
C17_FailedSaveReported ==
    [][ /\ (pc \notin Down /\ ~writable /\ FillCount(state') > FillCount(state)) =>
             /\ pc' = "error"
             /\ disk' = disk
        /\ (pc = "error" /\ pc' = "discover") => state' = state
        /\ pc \in Down =>
             /\ pc' = "discover"
             /\ state' = load_state(disk) ]_vars

\* a tick starts with two fills in memory that the state file does not
\* have, the loop having gone on after each failed save
C17_Witness ==
    /\ pc = "discover" /\ ~writable
    /\ submits # << >>
    /\ state.main # None
    /\ FillCount(state) = 2
    /\ FillCount(load_state(disk)) = 0

\* C18: for every BotState st, from_json(to_json(st)) is st, field for
\* field, absent fields absent, zero and the empty string as they were.
C18_RoundTrip ==
    /\ from_json(to_json(state)) = state
    /\ pc = "done" => from_json(disk[1]) = state

\* a state with main present, hedge absent, a zero stake and absent optional
\* fields went through to_json and from_json
C18_Witness ==
    /\ pc = "done"
    /\ state.main # None /\ state.hedge = None
    /\ state.main[1].total_stake_usd = 0
    /\ state.main[1].last_add_price_cents = None
    /\ state.sum_avg_at_hedge = None /\ state.current_slug = None
    /\ state.up_token_id = << "" >>

\* C19: a tick that reaches the token check on a tracked session whose
\* up_token_id or down_token_id is absent replaces the state by the default
\* BotState, saves it, and submits no order: no such tick ends with that
\* session still in place.
C19_MissingTokensRetire ==
    (pc = "sleep" /\ now # None /\ writable) =>
        ~(state.current_slug # None /\ TokensMissing(state))

\* C20: when extract_up_down_tokens_from_gamma_market rejects the discovered
\* market (a token missing, arrays of different length), the tick leaves the
\* default BotState behind, not the previous session.
C20_InvalidMarketResets ==
    pc = "invalid" => state = BotState

\* the BotState is the one the tick started from: same session, same
\* positions, same main stake (every assignment the loop makes to the state
\* changes one of these)
AsAtTickStart(st) ==
    /\ st.current_slug = tick0.current_slug
    /\ st.end_date_iso = tick0.end_date_iso
    /\ (st.main # None) = tick0.has_main
    /\ (st.hedge # None) = tick0.has_hedge
    /\ (IF st.main = None THEN 0 ELSE st.main[1].total_stake_usd) = tick0.stake

\* the step is a transient failure: a call raised (discovery, an order-book
\* read, an order submission, the extractor on a malformed record), or an
\* order book was too thin for the signal or the guard estimate
TransientFailure ==
    \/ pc \notin {"error", "invalid"} /\ pc' \in {"error", "invalid"}
    \/ pc = "signals" /\ (up_px' = None \/ down_px' = None)
    \/ /\ pc \in {"entry", "dca", "hedge"}
       /\ Len(calls') = Len(calls) + 1
       /\ calls'[Len(calls')].op = "vwap_usd" /\ calls'[Len(calls')].res = None

\* C21 (as amended): the step at which a tick fails transiently, and the
\* except clause's sleep that follows it, change neither the BotState in
\* memory nor the state file: both are as they were when the failure
\* occurred.
C21_FailureMutatesNothing ==
    [][ (TransientFailure \/ pc \in {"error", "invalid"}) =>
            (state' = state /\ disk' = disk) ]_vars

\* the DCA order of a session holding main raised: the except clause is about
\* to sleep, on the state the tick started from
C21_Witness ==
    /\ pc = "error"
    /\ state.main # None /\ state.hedge = None
    /\ Buys(calls) = 1 /\ calls[Len(calls)].kind = "dca"
    /\ AsAtTickStart(state)
    /\ disk = Some(to_json(state))

\* C21: when a tick is aborted by a transient failure, the BotState in memory
\* (and with it the state file) is the one the tick started from, wherever
\* in the tick the failure occurred.
C21_AbortedTickUntouched ==
    pc \in {"error", "invalid"} => AsAtTickStart(state)

\* C22: a tick that raised is followed by the except clause's sleep and a
\* new tick on the same state; the loop is never left on a tick's failure,
\* only by an interrupt.
C22_LoopSurvivesTickFailure ==
    [][ /\ (pc \in {"error", "invalid"} /\ interrupted' = interrupted) =>
             (pc' = "discover" /\ state' = state /\ clock' >= clock)
        /\ (pc' = "stopped" /\ pc # "stopped") => (interrupted' /\ ~interrupted) ]_vars

\* the packaged loop, holding a main position, is in its except clause
\* because the hedge order raised
C22_Witness ==
    /\ pc = "error" /\ ~interrupted
    /\ variant = "run_bot_loop"
    /\ state.main # None
    /\ Buys(calls) = 1 /\ calls[Len(calls)].kind = "hedge"

\* C23: once the interrupt was delivered the loop does nothing more: no
\* discovery, order-book or order call, no write of the state file.
C23_InterruptStopsLoop ==
    [][ interrupted => (pc' = pc /\ calls' = calls /\ state' = state /\ disk' = disk) ]_vars

\* the call under way is f(...) and has returned
Returned(f) == pc = "returned" /\ arg[1].f = f

\* C24: choose_entry_side returns "up" iff up < trigger and (down >= trigger
\* or up <= down), "down" iff down < trigger and (up >= trigger or down < up),
\* None iff both are >= trigger; (24,24,25) gives "up", (26,24,25) "down",
\* (30,30,25) None; the standalone loop's entry branch chooses the same side.
C24_EntrySideTieBreak ==
    Returned("choose_entry_side") =>
        LET up == arg[1].up_px
            down == arg[1].down_px
            trigger == arg[1].trigger
            at(u, d, t) == up = u /\ down = d /\ trigger = t
        IN /\ ret[1] = Some("up") <=> (up < trigger /\ (down >= trigger \/ up <= down))
           /\ ret[1] = Some("down") <=> (down < trigger /\ (up >= trigger \/ down < up))
           /\ ret[1] = None <=> (up >= trigger /\ down >= trigger)
           /\ at(24, 24, 25) => ret[1] = Some("up")
           /\ at(26, 24, 25) => ret[1] = Some("down")
           /\ at(30, 30, 25) => ret[1] = None

\* the standalone loop chose its side on a tie below the trigger
C24_Witness ==
    /\ Returned("choose_entry_side") /\ variant = "main"
    /\ arg[1].up_px = 24 /\ arg[1].down_px = 24 /\ arg[1].trigger = 25
    /\ ret = Some(Some("up"))

\* C25: should_dca is false without a prior fill and otherwise true iff
\* signal <= last_add_price_cents - step, the boundary included: with last
\* add 30 and step 2, true at 28 and false above 28.
C25_DcaBoundary ==
    Returned("should_dca") =>
        LET last == arg[1].main.last_add_price_cents
            px == arg[1].main_signal_px
            step == arg[1].step_cents
        IN /\ last = None => ret[1] = FALSE
           /\ last # None => (ret[1] <=> px + step <= last[1])
           /\ (last = Some(30) /\ step = 2 /\ px = 28) => ret[1] = TRUE
           /\ (last = Some(30) /\ step = 2 /\ px > 28) => ret[1] = FALSE

\* should_dca returned true exactly on the boundary
C25_Witness ==
    /\ Returned("should_dca")
    /\ arg[1].main.last_add_price_cents = Some(30)
    /\ arg[1].step_cents = 2 /\ arg[1].main_signal_px = 28
    /\ ret = Some(TRUE)

\* C26: should_hedge returns (false, None) for a main without shares and
\* otherwise (avg + opp < threshold, avg + opp), avg = 100 * stake / shares:
\* the sum comes back on both branches and the comparison is strict; stake 3,
\* shares 10, opp 65, threshold 98 give (true, 95).
C26_HedgeSum ==
    Returned("should_hedge") =>
        LET stake == arg[1].main.total_stake_usd
            shares == arg[1].main.total_shares
            opp == arg[1].opp_signal_px
            threshold == arg[1].threshold
            hedge_ok == ret[1][1]
            sum == ret[1][2]
        IN /\ shares <= 0 => (~hedge_ok /\ sum = None)
           /\ shares > 0 =>
                /\ sum # None
                /\ sum[1].num * shares = (100 * stake + opp * shares) * sum[1].den
                /\ hedge_ok <=> (100 * stake + opp * shares < threshold * shares)
           /\ (stake = 3 /\ shares = 10 /\ opp = 65 /\ threshold = 98) =>
                (hedge_ok /\ sum[1].num = 95 * sum[1].den)

\* should_hedge returned false with the sum, the sum being exactly the threshold
C26_Witness ==
    /\ Returned("should_hedge")
    /\ arg[1].main.total_stake_usd = 3 /\ arg[1].main.total_shares = 10
    /\ arg[1].opp_signal_px = 68
    /\ ret[1][1] = FALSE
    /\ ret[1][2] # None /\ ret[1][2][1].num = 98 * ret[1][2][1].den

\* the step fills a DCA order: main was held and its stake grows
DcaFill ==
    /\ state.main # None /\ state'.main # None
    /\ state'.current_slug = state.current_slug
    /\ state'.main[1].total_stake_usd > state.main[1].total_stake_usd

\* C27: every DCA is decided and filled at a main-side signal at least
\* dca_step_cents below the signal of main's previous fill, which is what
\* last_add_price_cents holds: it strictly decreases from fill to fill and
\* no DCA is ordered at or above it.
C27_DcaOnlyDownwards ==
    [][ /\ pc' = "dca" =>
             /\ state'.main # None /\ state'.main[1].last_add_price_cents # None
             /\ SignalOf(state'.main[1].side, up_px'[1], down_px'[1])
                    <= state'.main[1].last_add_price_cents[1] - dca_step_cents
        /\ DcaFill =>
             LET px == SignalOf(state.main[1].side, up_px[1], down_px[1]) IN
             /\ pc = "dca"
             /\ state'.main[1].last_add_price_cents = Some(px)
             /\ px <= state.main[1].last_add_price_cents[1] - dca_step_cents
             /\ px < state.main[1].last_add_price_cents[1] ]_vars

\* a session entered at 24, added at 22 and added again at 20: the second
\* add was measured from 22, not from the entry
C27_Witness ==
    /\ state.main # None
    /\ state.main[1].total_stake_usd = 3 * chunk_stake
    /\ state.main[1].last_add_price_cents = Some(20)
    /\ state.main[1].first_entry_ts # state.main[1].last_add_ts

\* a level with a positive price and a positive size
ValidLevel(lvl) ==
    /\ lvl.price # None /\ lvl.size # None
    /\ lvl.price[1] > 0 /\ lvl.size[1] > 0

ValidLevels(asks) == SelectSeq(asks, ValidLevel)

RECURSIVE TotalSize(_)
TotalSize(asks) ==
    IF asks = << >> THEN 0 ELSE Head(asks).size[1] + TotalSize(Tail(asks))

RECURSIVE TotalValue(_)
TotalValue(asks) ==
    IF asks = << >> THEN 0
    ELSE Head(asks).size[1] * Head(asks).price[1] + TotalValue(Tail(asks))

\* the cost of the q cheapest shares of a book of valid levels
RECURSIVE CheapestCost(_, _)
CheapestCost(asks, q) ==
    IF q <= 0 \/ asks = << >> THEN 0
    ELSE LET i == CHOOSE i \in 1..Len(asks) :
                     \A j \in 1..Len(asks) : asks[i].price[1] <= asks[j].price[1]
             take == Min(asks[i].size[1], q)
             rest == [j \in 1..(Len(asks) - 1) |-> IF j < i THEN asks[j] ELSE asks[j + 1]]
         IN take * asks[i].price[1] + CheapestCost(rest, q - take)

\* a <= b for fractions with positive denominators
Leq(a, b) == a.num * b.den <= b.num * a.den

\* C28: on levels of positive price and size in any order and 0 < q <= the
\* shares available, vwap_cents_for_shares returns 100 * (cost of the q
\* cheapest shares) / q, and the result does not decrease as q grows.
C28_CheapestFirst ==
    (/\ Returned("vwap_cents_for_shares")
     /\ ValidLevels(arg[1].asks) = arg[1].asks
     /\ 0 < arg[1].amount /\ arg[1].amount <= TotalSize(arg[1].asks)) =>
        LET asks == arg[1].asks
            q == arg[1].amount
        IN /\ ret[1] # None
           /\ ret[1][1].num * q = CheapestCost(asks, q) * ret[1][1].den
           /\ \A q1 \in 1..q :
                 LET r1 == vwap_cents_for_shares(variant, asks, q1) IN
                 r1 # None /\ Leq(r1[1], ret[1][1])

\* C29 (as amended): a budget b <= 0 gives None.  For b > 0: when the valid
\* levels are worth at least b the walk spends exactly b and returns a price
\* between the cheapest and the dearest valid level; when they are worth less
\* than b by more than 1e-6 dollars, or there is none, it returns None; when
\* they fall short of b by at most 1e-6 dollars it spends the whole book and
\* returns its price.
C29_BudgetWithinSlack ==
    Returned("vwap_cents_for_usd") =>
        LET asks == ValidLevels(arg[1].asks)
            b == arg[1].amount
            total == TotalValue(asks)
            w == UsdWalk(variant, arg[1].asks, b, 0, 0)
            priced == /\ ret[1] # None
                      /\ \E i \in 1..Len(asks) :
                            Leq([num |-> asks[i].price[1], den |-> 1], ret[1][1])
                      /\ \E i \in 1..Len(asks) :
                            Leq(ret[1][1], [num |-> asks[i].price[1], den |-> 1])
        IN /\ b <= 0 => ret[1] = None
           /\ (b > 0 /\ total >= b) => (priced /\ w.spent = b)
           /\ (b > 0 /\ (total < b - Slack \/ total = 0)) => ret[1] = None
           /\ (b > 0 /\ 0 < total /\ b - Slack <= total /\ total < b) =>
                (priced /\ w.spent = total
                 /\ ret[1][1].num * TotalSize(asks) = total * ret[1][1].den)

\* 70 of budget on a book of 2 at 20 cents and 3 at 50: the first level whole
\* (40), of the second 30 / 50, in all 70 for 2.6, i.e. 3500/130 cents
C29_Witness ==
    /\ Returned("vwap_cents_for_usd")
    /\ arg[1].amount = 70
    /\ arg[1].asks = << [price |-> Some(20), size |-> Some(2)],
                        [price |-> Some(50), size |-> Some(3)] >>
    /\ ret = Some(Some([num |-> 3500, den |-> 130]))

\* C29: a budget b <= 0 gives None; for b > 0 the walk spends exactly b and
\* a price is returned whenever the valid levels are worth at least b, and
\* None is returned whenever they are worth less than b.
C29_ExactBudgetOrNone ==
    Returned("vwap_cents_for_usd") =>
        LET b == arg[1].amount
            total == TotalValue(ValidLevels(arg[1].asks))
        IN /\ b <= 0 => ret[1] = None
           /\ (b > 0 /\ total >= b) =>
                (ret[1] # None /\ UsdWalk(variant, arg[1].asks, b, 0, 0).spent = b)
           /\ (b > 0 /\ total < b) => ret[1] = None

\* C30: both estimators, in both copies, return on any book what they return
\* on the book without the levels whose price or size is missing or not
\* positive.
C30_BadLevelsSkipped ==
    /\ Returned("vwap_cents_for_shares") =>
          ret[1] = vwap_cents_for_shares(variant, ValidLevels(arg[1].asks), arg[1].amount)
    /\ Returned("vwap_cents_for_usd") =>
          ret[1] = vwap_cents_for_usd(variant, ValidLevels(arg[1].asks), arg[1].amount)

\* the session holds only a main position on "up", of the given stake, last
\* added to at the given signal price
OnUp(st, stake, last) ==
    /\ st.main # None /\ st.hedge = None
    /\ st.main[1].side = "up"
    /\ st.main[1].total_stake_usd = stake
    /\ st.main[1].last_add_price_cents = Some(last)

\* the step reads the signals u (up) and d (down) in a tick that the throttle
\* does not stop
Reads(u, d) ==
    /\ pc = "signals" /\ ~Throttled(state, now[1])
    /\ up_px' = Some(u) /\ down_px' = Some(d)

\* the step's guard passed and its order filled
OrderFilled ==
    /\ pc \in {"entry", "dca", "hedge"}
    /\ Len(calls') = Len(calls) + 2
    /\ state' # state

\* C31: with trigger 25 and step 2, guards passing, orders filling exactly
\* and ticks at least the throttle interval apart: an up signal of 25 brings
\* no order, 23 an entry on "up", 21 exactly one DCA (main stake twice the
\* chunk); a later tick whose opposite signal puts avg_entry + opposite under
\* 98 proposes the hedge and its fill is the only one; a hedged session
\* proposes no entry and no DCA whatever the prices.
C31_Scenario ==
    [][ /\ (state.main = None /\ state.hedge = None /\ Reads(25, 70)) =>
              (pc' = "sleep" /\ calls' = calls)
        /\ (state.main = None /\ state.hedge = None /\ Reads(23, 70)) => pc' = "entry"
        /\ (state.main = None /\ up_px = Some(23) /\ down_px = Some(70) /\ OrderFilled) =>
              (OnUp(state', chunk_stake, 23) /\ pc' = "sleep")
        /\ (OnUp(state, chunk_stake, 23) /\ \E d \in ScenarioPx : Reads(21, d)) =>
              pc' = "dca"
        /\ (OnUp(state, chunk_stake, 23) /\ pc = "dca" /\ up_px = Some(21) /\ OrderFilled) =>
              OnUp(state', 2 * chunk_stake, 21)
        /\ (OnUp(state, 2 * chunk_stake, 21) /\ \E d \in ScenarioPx : Reads(21, d)) =>
              pc' # "dca"
        /\ (/\ OnUp(state, 2 * chunk_stake, 21)
            /\ \E u, d \in ScenarioPx :
                  /\ Reads(u, d)
                  /\ u > 21 - dca_step_cents
                  /\ 100 * state.main[1].total_stake_usd + d * state.main[1].total_shares
                       < hedge_sum_under_cents * state.main[1].total_shares) =>
              pc' = "hedge"
        /\ (OnUp(state, 2 * chunk_stake, 21) /\ pc = "hedge" /\ OrderFilled) =>
              (/\ state'.hedge # None /\ state'.main = state.main
               /\ Cardinality({ i \in 1..Len(calls') :
                                  calls'[i].op = "buy" /\ calls'[i].kind = "hedge" }) = 1
               /\ pc' = "sleep")
        /\ state.hedge # None =>
              (pc' \notin {"entry", "dca", "hedge"} /\ Len(calls') <= Len(calls))
      ]_vars

\* C32: after the DCA block (order filled or not) the hedge decision of the
\* same tick is taken on the position as the DCA left it: the hedge is
\* proposed iff its average entry plus the opposite signal is under
\* hedge_sum_under_cents, so a DCA and a hedge can share a tick; a tick that
\* makes the initial entry ends there, with no DCA or hedge estimate.
C32_HedgeSeesDca ==
    [][ /\ (pc = "dca" /\ pc' # "error") =>
              LET main == state'.main[1]
                  opp == SignalOf(OppSide(main.side), up_px[1], down_px[1])
              IN pc' = IF /\ main.total_shares > 0
                          /\ 100 * main.total_stake_usd + opp * main.total_shares
                               < hedge_sum_under_cents * main.total_shares
                       THEN "hedge" ELSE "sleep"
        /\ pc = "entry" => pc' \in {"sleep", "error"}
        /\ (\E i \in 1..Len(calls') : calls'[i].kind = "entry") =>
              (\A i \in 1..Len(calls') : calls'[i].kind = "entry") ]_vars

\* a DCA has just filled at another price than the entry did (4 USD for 14
\* shares) and the same tick goes on to the hedge
C32_Witness ==
    /\ pc = "hedge"
    /\ Len(calls) = 2 /\ calls[2].op = "buy" /\ calls[2].kind = "dca"
    /\ state.main[1].total_stake_usd = tick0.stake + chunk_stake
    /\ state.main[1].total_stake_usd = 4 /\ state.main[1].total_shares = 14

\* C33: the hedge guard estimate and the hedge order are both for
\* main.total_stake_usd as it stands when the hedge is decided (a DCA filled
\* earlier in the tick included); the fill-or-kill order filling exactly,
\* the hedge's stake equals main's stake in every hedged state.
C33_HedgeSizedAtMainStake ==
    [][ /\ pc = "hedge" =>
              \A i \in (Len(calls) + 1)..Len(calls') :
                  /\ calls'[i].kind = "hedge"
                  /\ calls'[i].usd = state.main[1].total_stake_usd
        /\ state'.hedge # None =>
              /\ state'.main # None
              /\ state'.hedge[1].total_stake_usd = state'.main[1].total_stake_usd ]_vars

\* a tick filled a DCA and then the hedge, for the two chunks main then held
C33_Witness ==
    /\ pc = "sleep"
    /\ Len(calls) = 4 /\ calls[2].kind = "dca" /\ calls[4].kind = "hedge"
    /\ tick0.stake = chunk_stake
    /\ calls[3].usd = 2 * chunk_stake /\ calls[4].usd = 2 * chunk_stake
    /\ state.hedge # None /\ state.hedge[1].total_stake_usd = 2 * chunk_stake

\* the tracked session's end_date is still in the future at time t
Live(st, t) == st.end_date_iso # None /\ t < st.end_date_iso[1]

\* C34: a discovery step on a session whose end_date is still in the future
\* never discards it: when discovery returns no matching market (or an event
\* without markets, or fails) the BotState and the state file stay as they
\* are, the packaged loop going on to trade on that state and the standalone
\* loop sleeping; the state changes at discovery only by rotation to a
\* discovered market of another slug.
C34_MissKeepsLiveSession ==
    [][ (pc = "discover" /\ Live(state, clock)) =>
            /\ \/ state' = state /\ disk' = disk
               \/ /\ state'.current_slug # None
                  /\ state'.current_slug # state.current_slug
                  /\ pc' = "now"
            /\ (variant = "main" /\ pc' = "sleep") => (state' = state /\ disk' = disk)
            /\ (variant = "run_bot_loop" /\ pc' \in {"sleep", "now"}
                  /\ state'.current_slug = state.current_slug) =>
                 (state' = state /\ disk' = disk) ]_vars

\* the standalone loop, holding a main position in a market that has not
\* ended, got no market from discovery: the tick is over before the clock
\* was sampled, state and file untouched
C34_Witness ==
    /\ variant = "main"
    /\ pc = "sleep" /\ now = None
    /\ state.main # None /\ Live(state, clock)
    /\ AsAtTickStart(state)
    /\ disk = Some(to_json(state))

\* last_order_ts is absent exactly when main is, and otherwise is the time
\* of the most recent fill
StampIsLastFill(st) ==
    /\ st.last_order_ts = None <=> st.main = None
    /\ st.main # None =>
          /\ st.main[1].last_add_ts # None
          /\ st.hedge = None => st.last_order_ts = st.main[1].last_add_ts
          /\ st.hedge # None =>
                /\ st.hedge[1].last_add_ts # None
                /\ st.last_order_ts[1] >= st.main[1].last_add_ts[1]
                /\ st.last_order_ts[1] >= st.hedge[1].last_add_ts[1]
                /\ st.last_order_ts \in { st.main[1].last_add_ts, st.hedge[1].last_add_ts }

\* what the session has paid for its positions
Staked(st) ==
    (IF st.main = None THEN 0 ELSE st.main[1].total_stake_usd)
    + (IF st.hedge = None THEN 0 ELSE st.hedge[1].total_stake_usd)

\* the guard estimate calls[i] refused its trade
Refused(cs, i) ==
    /\ cs[i].op = "vwap_usd"
    /\ \/ cs[i].res = None
       \/ cs[i].res[1] > (IF cs[i].kind = "hedge" THEN max_hedge_vwap_cents
                                                   ELSE max_entry_vwap_cents)

\* C35 (as amended): in every state of a session started from an empty
\* state last_order_ts is absent exactly when main is absent and otherwise
\* is the time of the most recent fill; it is written only by a filled
\* order (and cleared by reset and rotation); the step of an order that the
\* guard rejects or that comes back not filled leaves last_order_ts, both
\* positions and the state file as they are.
C35_StampOnlyOnFill ==
    [][ /\ StampIsLastFill(state')
        /\ state'.last_order_ts # state.last_order_ts =>
              \/ state'.last_order_ts = None /\ state'.main = None /\ state'.hedge = None
              \/ /\ pc \in {"entry", "dca", "hedge"}
                 /\ state'.last_order_ts = now
                 /\ state'.current_slug = state.current_slug
                 /\ Staked(state') > Staked(state)
                 /\ Buys(calls') = Buys(calls) + 1
        /\ (pc \in {"entry", "dca", "hedge"} /\ pc' # "error"
              /\ Staked(state') = Staked(state)) =>
              (state' = state /\ disk' = disk) ]_vars

\* a DCA order came back not filled two seconds or more after the entry:
\* last_order_ts is still the time of the entry
C35_Witness ==
    /\ pc \in {"sleep", "hedge"}
    /\ Len(calls) = 2 /\ calls[2].op = "buy" /\ calls[2].kind = "dca"
    /\ state.main[1].total_stake_usd = tick0.stake
    /\ state.last_order_ts = state.main[1].first_entry_ts
    /\ state.last_order_ts # now
    /\ disk = Some(to_json(state))

\* C35: last_order_ts is absent exactly when main is absent and otherwise is
\* the time of the most recent fill; a tick in which the guard rejected an
\* order, or an order came back not filled, ends with last_order_ts, both
\* positions and the state file as they were when it started.
C35_UnfilledTickUntouched ==
    /\ StampIsLastFill(state)
    /\ (/\ pc = "sleep"
        /\ tick0.current_slug = state.current_slug      \* the tick did not rotate
        /\ \E i \in 1..Len(calls) : Refused(calls, i)) =>
          (AsAtTickStart(state) /\ state.last_order_ts # now)

\* C36: whenever the tick has submitted an order, the time the tick sampled
\* is strictly before the end_date of the tracked session, and the order's
\* token is the session's up_token_id or down_token_id.
C36_NoOrderOnExpiredMarket ==
    \A i \in 1..Len(calls) :
        calls[i].op = "buy" =>
            /\ now # None /\ state.end_date_iso # None
            /\ now[1] < state.end_date_iso[1]
            /\ state.up_token_id # None /\ state.down_token_id # None
            /\ calls[i].token \in { state.up_token_id[1], state.down_token_id[1] }

\* the packaged loop, served the same market by a discovery that lags,
\* submitted an order in the last second before the market's end
C36_Witness ==
    /\ variant = "run_bot_loop"
    /\ pc = "sleep" /\ Buys(calls) = 1
    /\ state.end_date_iso # None /\ now[1] + 1 = state.end_date_iso[1]
    /\ calls[2].token = state.down_token_id[1]

====
